---------------------------- MODULE Spec2Model ----------------------------
(***************************************************************************)
(* The recommendation engine of PM_Internship_Recommender: the skill       *)
(* normaliser, the dimension scorers, the hybrid scorer                    *)
(* (src/recommender.py) and the orchestrator get_recommendations over the  *)
(* SQLite store (src/database.py); and the password operations of the      *)
(* authentication manager (src/auth.py) over the same store.               *)
(*                                                                         *)
(* Text is a TLC string; Chars turns it into the sequence of its           *)
(* characters, on which the string functions of the code are defined, and  *)
(* Str turns a sequence of characters back into a string.  None and ""     *)
(* are both the string "": the code tests them with `if not x` only.       *)
(* A string of the model holds ASCII characters only; the four characters  *)
(* outside ASCII that matter are written as ASCII characters that no text  *)
(* uses otherwise: "^" is U+00E2 (a with circumflex), "$" is U+20AC (euro  *)
(* sign), "~" is U+00A2 (cent sign) and "*" is U+2022 (bullet).            *)
(* Scores are integers in units of 1/Unit.                                 *)
(***************************************************************************)
EXTENDS Integers, Sequences, FiniteSets, TLC

(***************************************************************************)
(* Strings                                                                 *)
(***************************************************************************)
Chars(s) == [i \in 1..Len(s) |-> SubSeq(s, i, i)]

RECURSIVE Str(_)
Str(cs) ==
    IF cs = <<>> THEN ""
    ELSE IF Len(cs) = 1 THEN cs[1]
    ELSE LET h == Len(cs) \div 2
         IN  Str(SubSeq(cs, 1, h)) \o Str(SubSeq(cs, h + 1, Len(cs)))

UpperCase == Chars("ABCDEFGHIJKLMNOPQRSTUVWXYZ")
LowerCase == Chars("abcdefghijklmnopqrstuvwxyz")
Digits == Chars("0123456789")

Range(f) == {f[i] : i \in DOMAIN f}

\* str.lower() on one character
LowerChar(c) ==
    IF c \in Range(UpperCase)
    THEN LowerCase[CHOOSE i \in 1..26 : UpperCase[i] = c]
    ELSE c

\* str.lower()
lower(cs) == [i \in 1..Len(cs) |-> LowerChar(cs[i])]

\* the class \w of the re module
IsWord(c) ==
    c \in Range(UpperCase) \cup Range(LowerCase) \cup Range(Digits) \cup {"_", "^"}

IsSpace(c) == c \in {" ", "\n", "\t", "\r"}

\* str.strip()
strip(cs) ==
    LET keep == {i \in 1..Len(cs) : ~IsSpace(cs[i])}
    IN  IF keep = {} THEN <<>>
        ELSE LET lo == CHOOSE i \in keep : \A j \in keep : i <= j
                 hi == CHOOSE i \in keep : \A j \in keep : j <= i
             IN  SubSeq(cs, lo, hi)

\* pat occurs in cs at index i
MatchAt(cs, i, pat) ==
    /\ i >= 1
    /\ i + Len(pat) - 1 <= Len(cs)
    /\ \A k \in 1..Len(pat) : cs[i + k - 1] = pat[k]

\* `pat in cs`
Contains(cs, pat) == \E i \in 1..(Len(cs) + 1) : MatchAt(cs, i, pat)

\* the assertion \b of the re module at the gap before index i
WordAt(cs, i) == i >= 1 /\ i <= Len(cs) /\ IsWord(cs[i])
Boundary(cs, i) == WordAt(cs, i - 1) # WordAt(cs, i)

\* the least element of a non-empty set of integers
Least(S) == CHOOSE i \in S : \A j \in S : i <= j

\* re.sub(r'\b' + re.escape(pat) + r'\b', rep, cs) from index i on: the leftmost
\* match is replaced and the scan resumes after it
RECURSIVE WordSubFrom(_, _, _, _)
WordSubFrom(cs, i, pat, rep) ==
    LET starts == {j \in i..Len(cs) :
                      MatchAt(cs, j, pat) /\ Boundary(cs, j) /\ Boundary(cs, j + Len(pat))}
    IN  IF starts = {} THEN SubSeq(cs, i, Len(cs))
        ELSE SubSeq(cs, i, Least(starts) - 1) \o rep
                 \o WordSubFrom(cs, Least(starts) + Len(pat), pat, rep)

\* re.sub(re.escape(pat), rep, cs) from index i on
RECURSIVE PlainSubFrom(_, _, _, _)
PlainSubFrom(cs, i, pat, rep) ==
    LET starts == {j \in i..Len(cs) : MatchAt(cs, j, pat)}
    IN  IF starts = {} THEN SubSeq(cs, i, Len(cs))
        ELSE SubSeq(cs, i, Least(starts) - 1) \o rep
                 \o PlainSubFrom(cs, Least(starts) + Len(pat), pat, rep)

(***************************************************************************)
(* Skill normaliser                                                        *)
(***************************************************************************)
\* the abbreviation table, in the insertion order of the dict
skill_synonyms == <<
    <<"ml", "machine learning">>,
    <<"ai", "artificial intelligence">>,
    <<"dl", "deep learning">>,
    <<"js", "javascript">>,
    <<"ts", "typescript">>,
    <<"py", "python">>,
    <<"golang", "go">>,
    <<"nodejs", "node.js">>,
    <<"node", "node.js">>,
    <<"react.js", "react">>,
    <<"vue.js", "vue">>,
    <<"angular.js", "angular">>,
    <<"postgres", "postgresql">>,
    <<"mongo", "mongodb">>,
    <<"k8s", "kubernetes">>,
    <<"gcp", "google cloud platform">>,
    <<"aws", "amazon web services">>,
    <<"azure", "microsoft azure">>,
    <<"pm", "product management">>,
    <<"ux", "user experience">>,
    <<"ui", "user interface">>,
    <<"ci/cd", "continuous integration continuous deployment">>,
    <<"devops", "development operations">>,
    <<"backend", "back-end">>,
    <<"frontend", "front-end">>,
    <<"fullstack", "full-stack">>,
    <<"db", "database">>,
    <<"ds", "data science">>,
    <<"bi", "business intelligence">>,
    <<"ba", "business analysis">>,
    <<"qa", "quality assurance">>,
    <<"api", "application programming interface">>,
    <<"rest", "representational state transfer">>,
    <<"graphql", "graph query language">>,
    <<"nosql", "non-relational database">>,
    <<"sql", "structured query language">>,
    <<"etl", "extract transform load">>,
    <<"nlp", "natural language processing">>,
    <<"cv", "computer vision">>,
    <<"iot", "internet of things">>,
    <<"saas", "software as a service">>,
    <<"paas", "platform as a service">>,
    <<"iaas", "infrastructure as a service">> >>

\* sorted(items, key=len(abbr), reverse=True): a stable sort, longest first
RECURSIVE ByLengthFrom(_, _)
ByLengthFrom(items, n) ==
    IF n = 0 THEN <<>>
    ELSE SelectSeq(items, LAMBDA kv : Len(kv[1]) = n) \o ByLengthFrom(items, n - 1)

sorted_synonyms == ByLengthFrom(skill_synonyms, 10)

\* the loop over sorted_synonyms, entries lo..hi in order.  The entries are
\* taken in halves, and the text is evaluated (Len) before it is passed on, to
\* keep the evaluation shallow.
RECURSIVE ApplySynonyms(_, _, _)
ApplySynonyms(cs, lo, hi) ==
    IF Len(cs) = 0 \/ lo > hi THEN cs
    ELSE IF lo = hi
         THEN WordSubFrom(cs, 1, Chars(sorted_synonyms[lo][1]), Chars(sorted_synonyms[lo][2]))
         ELSE ApplySynonyms(ApplySynonyms(cs, lo, (lo + hi) \div 2),
                            (lo + hi) \div 2 + 1, hi)

\* normalize_skills, on characters
NormalizeChars(cs) ==
    IF cs = <<>> THEN <<>>
    ELSE LET expanded == ApplySynonyms(lower(cs), 1, Len(sorted_synonyms))
             once == PlainSubFrom(expanded, 1, Chars(".javascript.javascript"),
                                  Chars(".javascript"))
         IN  PlainSubFrom(once, 1, Chars(".js.js"), Chars(".js"))

normalize_skills(skills_text) == Str(NormalizeChars(Chars(skills_text)))

\* the character class of re.split in extract_skill_set, as the source has it:
\* comma, semicolon, pipe, U+00E2, U+20AC, U+00A2 and newline
Delimiters == {",", ";", "|", "^", "$", "~", "\n"}

\* re.split(r'[...]+', cs): the maximal runs of characters that are no
\* delimiters, and an empty piece where cs begins or ends with a delimiter
SplitPieces(cs) ==
    LET isDelim(i) == cs[i] \in Delimiters
        runs == {<<a, b>> \in (1..Len(cs)) \X (1..Len(cs)) :
                    /\ a <= b
                    /\ \A k \in a..b : ~isDelim(k)
                    /\ a = 1 \/ isDelim(a - 1)
                    /\ b = Len(cs) \/ isDelim(b + 1)}
        edge == IF cs = <<>> \/ isDelim(1) \/ isDelim(Len(cs)) THEN {<<>>} ELSE {}
    IN  {SubSeq(cs, r[1], r[2]) : r \in runs} \cup edge

\* an extract_skill_set without the guard for an empty text and without the
\* filter on the length of a token
ExtractKeepingEmpty(skills_text) ==
    {Str(strip(p)) : p \in SplitPieces(NormalizeChars(Chars(skills_text)))}

\* extract_skill_set: the set of normalised tokens longer than one character
extract_skill_set(skills_text) ==
    IF skills_text = "" THEN {}
    ELSE LET cleaned == {strip(p) : p \in SplitPieces(NormalizeChars(Chars(skills_text)))}
         IN  {Str(t) : t \in {u \in cleaned : Len(u) > 1}}

(***************************************************************************)
(* Iteration order of a Python set of strings.  It depends on the hash     *)
(* seed of the interpreter, which is drawn when the process starts and     *)
(* never changes afterwards; the model has the two seeds of HashSeeds,     *)
(* under which a set iterates in alphabetical order, or shortest string    *)
(* first.                                                                  *)
(***************************************************************************)
HashSeeds == {"alphabetical", "shortest"}

Alphabet == Chars(" '+-./0123456789_abcdefghijklmnopqrstuvwxyz")

CharRank(c) ==
    IF c \in Range(Alphabet) THEN CHOOSE i \in DOMAIN Alphabet : Alphabet[i] = c ELSE 0

\* a < b on strings
StringLess(a, b) ==
    LET ca == Chars(a)
        cb == Chars(b)
        n == IF Len(ca) < Len(cb) THEN Len(ca) ELSE Len(cb)
        diff == {i \in 1..n : ca[i] # cb[i]}
    IN  IF diff = {} THEN Len(ca) < Len(cb)
        ELSE CharRank(ca[Least(diff)]) < CharRank(cb[Least(diff)])

\* list(S), " ".join(S), for ... in S: the elements of the set S in the
\* iteration order of the seed
SetList(S, seed) ==
    LET before(t, u) == IF seed = "alphabetical" THEN StringLess(t, u)
                        ELSE \/ Len(t) < Len(u)
                             \/ Len(t) = Len(u) /\ StringLess(t, u)
        pos(u) == 1 + Cardinality({t \in S : before(t, u)})
    IN  [i \in 1..Cardinality(S) |-> CHOOSE u \in S : pos(u) = i]

\* seq[:n]
Min(a, b) == IF a < b THEN a ELSE b
Max(a, b) == IF a > b THEN a ELSE b

\* the slice seq[:n]: a negative n counts from the end
SliceLen(len, n) == IF n >= 0 THEN Min(n, len) ELSE Max(len + n, 0)
Take(seq, n) == SubSeq(seq, 1, SliceLen(Len(seq), n))

\* scores are integers: 1.0 is Unit
Unit == 100 * 100

(***************************************************************************)
(* TF-IDF similarity: TfidfVectorizer(max_features=500,                    *)
(* stop_words='english', ngram_range=(1, 2)).fit_transform on the two      *)
(* joined skill texts, then cosine_similarity of the two rows.             *)
(***************************************************************************)
\* the words of scikit-learn's English stop word list that the skill
\* vocabulary of the abbreviation table and of the model's texts can produce
ENGLISH_STOP_WORDS ==
    {"as", "of", "go", "back", "front", "full", "system", "interest", "not",
     "and", "the", "in", "for", "to", "with", "on", "or", "an", "at", "by"}

\* re.findall(r'\b\w\w+\b', text): the maximal runs of two or more word
\* characters, in the order of the text
WordRuns(cs) ==
    {<<a, b>> \in (1..Len(cs)) \X (1..Len(cs)) :
        /\ a < b
        /\ \A k \in a..b : IsWord(cs[k])
        /\ ~WordAt(cs, a - 1)
        /\ ~WordAt(cs, b + 1)}

Tokenize(cs) ==
    LET runs == WordRuns(cs)
        pos(r) == 1 + Cardinality({q \in runs : q[1] < r[1]})
    IN  [i \in 1..Cardinality(runs) |->
            LET r == CHOOSE q \in runs : pos(q) = i
            IN  Str(lower(SubSeq(cs, r[1], r[2])))]

\* the analyzer: tokens without the stop words
Analyze(text) ==
    SelectSeq(Tokenize(Chars(text)), LAMBDA w : w \notin ENGLISH_STOP_WORDS)

\* the 1-grams and 2-grams of a word sequence, and their counts
NGrams(ws) ==
    {<<ws[i]>> : i \in 1..Len(ws)} \cup {<<ws[i], ws[i + 1]>> : i \in 1..(Len(ws) - 1)}

TermCount(ws, t) ==
    Cardinality({i \in 1..(Len(ws) - Len(t) + 1) : SubSeq(ws, i, i + Len(t) - 1) = t})

\* the sum of f[e] over the elements e of S
RECURSIVE SumOver(_, _)
SumOver(S, f) ==
    IF S = {} THEN 0
    ELSE f[CHOOSE e \in S : TRUE] + SumOver(S \ {CHOOSE e \in S : TRUE}, f)

\* <<floor(10^digits * a / b), the remainder>> by long division, 0 <= a, 0 < b
RECURSIVE LongDivQR(_, _, _)
LongDivQR(a, b, digits) ==
    IF digits = 0 THEN <<a \div b, a % b>>
    ELSE LET p == LongDivQR(a, b, digits - 1)
         IN  <<10 * p[1] + ((10 * p[2]) \div b), (10 * p[2]) % b>>

\* the integer square root, by bisection in lo..hi
RECURSIVE ISqrtIn(_, _, _)
ISqrtIn(n, lo, hi) ==
    IF lo >= hi THEN lo
    ELSE LET mid == (lo + hi + 1) \div 2
         IN  IF mid * mid <= n THEN ISqrtIn(n, mid, hi) ELSE ISqrtIn(n, lo, mid - 1)

\* The squared idf of a term in one of the two documents only is
\* (ln(3/2) + 1)^2 = 1.9753, taken as 79/40; of a term in both it is 1.
\* SquaredNorm is 40 times the squared length of a document's tf-idf row.
SquaredNorm(ws, other) ==
    SumOver(NGrams(ws),
            [t \in NGrams(ws) |->
                TermCount(ws, t) * TermCount(ws, t)
                    * (IF t \in NGrams(other) THEN 40 ELSE 79)])

\* cosine_similarity of the two rows, in units of 1/Unit; -1 stands for the
\* ValueError of fit_transform on an empty vocabulary
Cosine(dot, n1, n2) ==
    IF n1 = 0 \/ n2 = 0 THEN 0
    ELSE ISqrtIn(LongDivQR(1600 * dot * dot, n1 * n2, 8)[1], 0, Unit)

\* 40 times the dot product of the two rows is 40 * DotProduct
DotProduct(ws1, ws2, both) ==
    SumOver(both, [t \in both |-> TermCount(ws1, t) * TermCount(ws2, t)])

SimilarityOfWords(ws1, ws2) ==
    IF NGrams(ws1) \cup NGrams(ws2) = {} THEN -1
    ELSE Cosine(DotProduct(ws1, ws2, NGrams(ws1) \cap NGrams(ws2)),
                SquaredNorm(ws1, ws2), SquaredNorm(ws2, ws1))

TfidfSimilarity(text1, text2) == SimilarityOfWords(Analyze(text1), Analyze(text2))

\* " ".join(S)
RECURSIVE JoinSpace(_)
JoinSpace(seq) ==
    IF seq = <<>> THEN ""
    ELSE IF Len(seq) = 1 THEN seq[1]
    ELSE seq[1] \o " " \o JoinSpace(Tail(seq))

(***************************************************************************)
(* Dimension scorers                                                       *)
(***************************************************************************)
skill_categories ==
    [technical |-> {"python", "java", "javascript", "typescript", "html", "css",
                    "react", "node.js", "express", "sql", "postgresql", "mongodb",
                    "git", "github", "machine learning", "pandas", "numpy", "ai"},
     data_analysis |-> {"sql", "data analysis", "analytics", "statistics", "python",
                        "pandas", "numpy", "excel"},
     product_management |-> {"product strategy", "agile", "user stories",
                             "competitive analysis", "wireframing",
                             "stakeholder management", "roadmap", "user research"},
     soft_skills |-> {"leadership", "communication", "teamwork", "problem solving",
                      "analytical thinking", "creativity", "adaptability",
                      "time management", "project management", "presentation"}]

\* a base_score that weighs required and preferred skills alike
BaseScoreEvenWeights(candidate_set, required_set, preferred_set) ==
    IF required_set = {} THEN 0
    ELSE ((Unit * Cardinality(candidate_set \cap required_set))
              \div Cardinality(required_set)) \div 2
           + (IF preferred_set = {} THEN 0
              ELSE ((Unit * Cardinality(candidate_set \cap preferred_set))
                        \div Cardinality(preferred_set)) \div 2)

\* base_score before the floor and the bonuses (lines 149-155)
BaseScore(candidate_set, required_set, preferred_set) ==
    IF required_set = {} THEN 0
    ELSE LET required_score ==
                 (Unit * Cardinality(candidate_set \cap required_set))
                     \div Cardinality(required_set)
             preferred_score ==
                 IF preferred_set = {} THEN 0
                 ELSE (Unit * Cardinality(candidate_set \cap preferred_set))
                          \div Cardinality(preferred_set)
         IN  (required_score * 7 + preferred_score * 3) \div 10

\* category_bonuses (lines 168-181)
CategoryBonuses(candidate_set) ==
    LET n(cat) == Cardinality(candidate_set \cap skill_categories[cat])
    IN    Min(n("technical") * 1500, 4000)
        + Min(n("data_analysis") * 1200, 3000)
        + Min(n("product_management") * 2000, 5000)
        + Min(n("soft_skills") * 1000, 3000)

\* soft_skills_bonus (lines 184-185)
SoftSkillsBonus(candidate_set) ==
    Min(Cardinality(candidate_set \cap skill_categories.soft_skills) * 1000, 3000)

\* min_score (lines 188-193)
MinScore(candidate_set) ==
    IF Cardinality(candidate_set) > 5 THEN 2500
    ELSE IF Cardinality(candidate_set) > 0 THEN 1500
    ELSE 0

\* base_score after the floor and the bonuses (lines 195-198)
CombinedScore(candidate_set, required_set, preferred_set) ==
    Min(Max(BaseScore(candidate_set, required_set, preferred_set), MinScore(candidate_set))
            + CategoryBonuses(candidate_set) + SoftSkillsBonus(candidate_set),
        Unit)

\* calculate_skill_match_score: [score, matched_skills]
\* final_score (lines 200-218): the blend with the similarity of the two
\* joined skill texts, when there is one
FinalScore(base_score, candidate_text, internship_text, similarity) ==
    IF candidate_text # "" /\ internship_text # "" /\ similarity >= 0
    THEN (base_score * 6 + similarity * 4) \div 10
    ELSE base_score

BlendedScore(base_score, candidate_text, internship_text) ==
    FinalScore(base_score, candidate_text, internship_text,
               TfidfSimilarity(candidate_text, internship_text))

\* lines 146-222, on the three skill sets
SkillMatchOfSets(candidate_set, required_set, preferred_set, seed) ==
    [score |->
        Min(BlendedScore(CombinedScore(candidate_set, required_set, preferred_set),
                         JoinSpace(SetList(candidate_set, seed)),
                         JoinSpace(SetList(required_set \cup preferred_set, seed))),
            Unit),
     matched_skills |->
        Take(SetList((candidate_set \cap required_set)
                         \cup (candidate_set \cap preferred_set), seed), 5)]

calculate_skill_match_score(candidate_skills, required_skills, preferred_skills, seed) ==
    IF candidate_skills = "" \/ required_skills = ""
    THEN [score |-> 0, matched_skills |-> <<>>]
    ELSE SkillMatchOfSets(extract_skill_set(candidate_skills),
                          extract_skill_set(required_skills),
                          IF preferred_skills # ""
                          THEN extract_skill_set(preferred_skills) ELSE {},
                          seed)

\* check_location_match: [eligible, score]
ncr_cities == {"delhi", "gurgaon", "gurugram", "noida", "faridabad", "ghaziabad", "ncr"}

major_city_groups ==
    {{"mumbai", "pune", "nashik", "nagpur"},
     {"bangalore", "bengaluru", "mysore"},
     {"chennai", "coimbatore", "madurai"},
     {"hyderabad", "vijayawada", "visakhapatnam"},
     {"kolkata", "howrah", "durgapur"}}

\* any(city in loc for city in cities)
AnyIn(cities, loc) == \E city \in cities : Contains(loc, Chars(city))

\* a check_location_match that looks for "remote" on the candidate's side too
LocationMatchEitherSide(candidate_location, internship_location) ==
    IF candidate_location = "" \/ internship_location = ""
    THEN [eligible |-> TRUE, score |-> Unit \div 2]
    ELSE LET candidate_loc == strip(lower(Chars(candidate_location)))
             internship_loc == strip(lower(Chars(internship_location)))
         IN  IF \E loc \in {candidate_loc, internship_loc} :
                    Contains(loc, Chars("remote")) \/ Contains(loc, Chars("anywhere"))
             THEN [eligible |-> TRUE, score |-> Unit]
             ELSE IF candidate_loc = internship_loc
             THEN [eligible |-> TRUE, score |-> Unit]
             ELSE IF AnyIn(ncr_cities, candidate_loc) /\ AnyIn(ncr_cities, internship_loc)
             THEN [eligible |-> TRUE, score |-> 9000]
             ELSE IF \E group \in major_city_groups :
                        AnyIn(group, candidate_loc) /\ AnyIn(group, internship_loc)
             THEN [eligible |-> TRUE, score |-> 7000]
             ELSE [eligible |-> FALSE, score |-> 0]

check_location_match(candidate_location, internship_location) ==
    IF candidate_location = "" \/ internship_location = ""
    THEN [eligible |-> TRUE, score |-> Unit \div 2]
    ELSE LET candidate_loc == strip(lower(Chars(candidate_location)))
             internship_loc == strip(lower(Chars(internship_location)))
         IN  IF Contains(internship_loc, Chars("remote"))
                 \/ Contains(internship_loc, Chars("anywhere"))
             THEN [eligible |-> TRUE, score |-> Unit]
             ELSE IF candidate_loc = internship_loc
             THEN [eligible |-> TRUE, score |-> Unit]
             ELSE IF AnyIn(ncr_cities, candidate_loc) /\ AnyIn(ncr_cities, internship_loc)
             THEN [eligible |-> TRUE, score |-> 9000]
             ELSE IF \E group \in major_city_groups :
                        AnyIn(group, candidate_loc) /\ AnyIn(group, internship_loc)
             THEN [eligible |-> TRUE, score |-> 7000]
             ELSE [eligible |-> FALSE, score |-> 0]

\* the education level hierarchy
education_hierarchy ==
    [s \in {"high school", "diploma", "certificate", "bachelor's", "bachelor", "btech",
            "be", "bca", "bba", "master's", "master", "mtech", "me", "mca", "mba",
            "phd", "doctorate"} |->
        CASE s = "high school" -> 1
          [] s \in {"diploma", "certificate"} -> 2
          [] s \in {"bachelor's", "bachelor", "btech", "be", "bca", "bba"} -> 3
          [] s \in {"master's", "master", "mtech", "me", "mca", "mba"} -> 4
          [] s \in {"phd", "doctorate"} -> 5]

\* education_hierarchy.get(key, 0)
EducationLevel(key) ==
    IF key \in DOMAIN education_hierarchy THEN education_hierarchy[key] ELSE 0

\* str.split('/'): the pieces between the slashes
SlashPieces(cs) ==
    LET cuts == {0, Len(cs) + 1} \cup {i \in 1..Len(cs) : cs[i] = "/"}
    IN  {SubSeq(cs, a + 1, b - 1) :
            <<a, b>> \in {<<a, b>> \in cuts \X cuts :
                             a < b /\ \A k \in cuts : ~(a < k /\ k < b)}}

\* the greatest element of a non-empty set of integers
Greatest(S) == CHOOSE i \in S : \A j \in S : j <= i

\* check_education_eligibility: [eligible, score]
check_education_eligibility(candidate_education, min_education) ==
    IF min_education = "" THEN [eligible |-> TRUE, score |-> Unit]
    ELSE IF candidate_education = "" THEN [eligible |-> FALSE, score |-> 0]
    ELSE LET required_level == EducationLevel(Str(strip(lower(Chars(min_education)))))
             candidate_levels ==
                 {EducationLevel(Str(strip(part))) :
                     part \in SlashPieces(strip(lower(Chars(candidate_education))))} \ {0}
             candidate_level ==
                 IF candidate_levels # {} THEN Greatest(candidate_levels) ELSE 0
         IN  IF candidate_level >= required_level
             THEN [eligible |-> TRUE,
                   score |-> Min(Unit, 7000 + Min((candidate_level - required_level) * 1000,
                                                  3000))]
             ELSE IF candidate_level >= required_level - 1
             THEN [eligible |-> TRUE, score |-> 5000]
             ELSE [eligible |-> FALSE, score |-> 0]

\* a check_experience_eligibility without the lenient branch
ExperienceWithoutLeniency(candidate_exp, required_exp) ==
    IF required_exp = 0 THEN [eligible |-> TRUE, score |-> Unit]
    ELSE IF candidate_exp >= required_exp
    THEN [eligible |-> TRUE,
          score |-> Min(Unit, 8000 + Min((candidate_exp - required_exp) * 500, 2000))]
    ELSE [eligible |-> FALSE, score |-> 0]

\* check_experience_eligibility: [eligible, score]
check_experience_eligibility(candidate_exp, required_exp) ==
    IF required_exp = 0 THEN [eligible |-> TRUE, score |-> Unit]
    ELSE IF candidate_exp >= required_exp
    THEN [eligible |-> TRUE,
          score |-> Min(Unit, 8000 + Min((candidate_exp - required_exp) * 500, 2000))]
    ELSE IF candidate_exp >= required_exp - 1
    THEN [eligible |-> TRUE, score |-> 6000]
    ELSE [eligible |-> FALSE, score |-> 0]

\* calculate_potential_bonus
PotentialOfSkills(candidate_skills) ==
    LET hit(S) == candidate_skills \cap S # {}
        learning == IF hit({"learning", "adaptability", "curiosity", "growth mindset",
                            "eagerness to learn"}) THEN 3000 ELSE 0
        leadership == IF hit({"leadership", "communication", "teamwork", "presentation",
                              "stakeholder management"}) THEN 4000 ELSE 0
        analytical == IF hit({"analytical thinking", "problem solving",
                              "critical thinking", "data analysis"}) THEN 3000 ELSE 0
        technical == Min(Cardinality(candidate_skills \cap
                            {"python", "java", "javascript", "sql", "machine learning",
                             "ai", "data analysis"}) * 1000, 4000)
        fullstack == Min(Cardinality(candidate_skills \cap
                            {"html", "css", "javascript", "react", "node.js", "express",
                             "mongodb", "postgresql"}) * 800, 3000)
    IN  Min(learning + leadership + analytical + technical + fullstack, Unit)

calculate_potential_bonus(candidate) == PotentialOfSkills(extract_skill_set(candidate.skills))

(***************************************************************************)
(* Hybrid scorer.  The weights are percentages, so the total is in units   *)
(* of 1/ScoreUnit.                                                         *)
(***************************************************************************)
ScoreUnit == 100 * Unit

\* sep.join(seq)
RECURSIVE JoinWith(_, _)
JoinWith(seq, sep) ==
    IF seq = <<>> THEN ""
    ELSE IF Len(seq) = 1 THEN seq[1]
    ELSE seq[1] \o sep \o JoinWith(Tail(seq), sep)

\* the weighted sum of the five components (lines 357-392)
WeightedSum(skill_score, loc_score, edu_score, exp_score, potential_bonus) ==
    skill_score * 45 + loc_score * 20 + edu_score * 15 + exp_score * 10
        + potential_bonus * 10

\* a penalty of 0.3 for any ineligibility
PenalisedAnyFailure(total_score, edu_eligible, exp_eligible) ==
    IF ~edu_eligible \/ ~exp_eligible THEN (total_score * 3) \div 10
    ELSE total_score

\* the penalty for ineligibility (lines 394-398)
Penalised(total_score, edu_eligible, exp_eligible) ==
    IF ~edu_eligible /\ ~exp_eligible THEN (total_score * 3) \div 10
    ELSE IF ~edu_eligible \/ ~exp_eligible THEN (total_score * 7) \div 10
    ELSE total_score

\* no floor
NotFloored(total_score) == total_score

\* the minimum score floor (lines 400-402)
Floored(total_score) ==
    IF total_score < ScoreUnit \div 10 THEN ScoreUnit \div 10 ELSE total_score

\* explanation_parts without the branch "Fresh perspective welcome!" for a
\* candidate without skills
ExplanationPartsWithoutFallback(candidate, internship, matched_skills, loc, edu, exp, total_score, seed) ==
    LET skills_part ==
            IF matched_skills # <<>>
            THEN <<"Skills match: " \o JoinWith(Take(matched_skills, 3), ", ")>>
            ELSE IF extract_skill_set(candidate.skills) # {}
            THEN <<"Your skills: "
                     \o JoinWith(Take(SetList(extract_skill_set(candidate.skills), seed), 3),
                                 ", ")>>
            ELSE <<>>
        location_part ==
            IF loc.eligible /\ candidate.location # ""
            THEN IF Contains(lower(Chars(internship.location)), Chars("remote"))
                 THEN <<"Remote opportunity">>
                 ELSE IF lower(Chars(candidate.location)) = lower(Chars(internship.location))
                 THEN <<"Location match: " \o candidate.location>>
                 ELSE <<>>
            ELSE <<>>
        education_part ==
            IF edu.eligible /\ edu.score > 7000
            THEN <<"Education: " \o candidate.education>>
            ELSE <<>>
        experience_part ==
            IF exp.eligible /\ candidate.experience_years > 0
            THEN <<"Experience: " \o ToString(candidate.experience_years) \o " years">>
            ELSE IF candidate.experience_years = 0
            THEN <<"Perfect for entry-level role">>
            ELSE <<>>
        encouragement_part ==
            IF total_score < (ScoreUnit * 3) \div 10
            THEN <<"Great learning opportunity!">>
            ELSE <<>>
    IN  skills_part \o location_part \o education_part \o experience_part
            \o encouragement_part

\* explanation_parts (lines 404-433)
ExplanationParts(candidate, internship, matched_skills, loc, edu, exp, total_score, seed) ==
    LET skills_part ==
            IF matched_skills # <<>>
            THEN <<"Skills match: " \o JoinWith(Take(matched_skills, 3), ", ")>>
            ELSE IF extract_skill_set(candidate.skills) # {}
            THEN <<"Your skills: "
                     \o JoinWith(Take(SetList(extract_skill_set(candidate.skills), seed), 3),
                                 ", ")>>
            ELSE <<"Fresh perspective welcome!">>
        location_part ==
            IF loc.eligible /\ candidate.location # ""
            THEN IF Contains(lower(Chars(internship.location)), Chars("remote"))
                 THEN <<"Remote opportunity">>
                 ELSE IF lower(Chars(candidate.location)) = lower(Chars(internship.location))
                 THEN <<"Location match: " \o candidate.location>>
                 ELSE <<>>
            ELSE <<>>
        education_part ==
            IF edu.eligible /\ edu.score > 7000
            THEN <<"Education: " \o candidate.education>>
            ELSE <<>>
        experience_part ==
            IF exp.eligible /\ candidate.experience_years > 0
            THEN <<"Experience: " \o ToString(candidate.experience_years) \o " years">>
            ELSE IF candidate.experience_years = 0
            THEN <<"Perfect for entry-level role">>
            ELSE <<>>
        encouragement_part ==
            IF total_score < (ScoreUnit * 3) \div 10
            THEN <<"Great learning opportunity!">>
            ELSE <<>>
    IN  skills_part \o location_part \o education_part \o experience_part
            \o encouragement_part

\* the returned triple with the parts joined by ", "
HybridResultCommaJoined(total_score, explanation_parts, matched_skills) ==
    [score |-> total_score,
     explanation |-> IF explanation_parts # <<>>
                     THEN JoinWith(explanation_parts, ", ")
                     ELSE "Good potential match",
     matched_skills |-> matched_skills]

\* calculate_hybrid_score: [score, explanation, matched_skills]
\* the returned triple (lines 435-437)
HybridResult(total_score, explanation_parts, matched_skills) ==
    [score |-> total_score,
     explanation |-> IF explanation_parts # <<>>
                     THEN JoinWith(explanation_parts, " | ")
                     ELSE "Good potential match",
     matched_skills |-> matched_skills]

\* lines 404-437, given the component scores and the total
HybridExplained(candidate, internship, skill, loc, edu, exp, total_score, seed) ==
    HybridResult(total_score,
                 ExplanationParts(candidate, internship, skill.matched_skills, loc, edu,
                                  exp, total_score, seed),
                 skill.matched_skills)

\* lines 357-437, given the component scores
HybridOfComponents(candidate, internship, skill, loc, edu, exp, seed) ==
    HybridExplained(candidate, internship, skill, loc, edu, exp,
                    Floored(Penalised(WeightedSum(skill.score, loc.score, edu.score,
                                                  exp.score,
                                                  calculate_potential_bonus(candidate)),
                                      edu.eligible, exp.eligible)),
                    seed)

calculate_hybrid_score(candidate, internship, seed) ==
    HybridOfComponents(
        candidate, internship,
        calculate_skill_match_score(candidate.skills, internship.required_skills,
                                    internship.preferred_skills, seed),
        check_location_match(candidate.location, internship.location),
        check_education_eligibility(candidate.education, internship.min_education),
        check_experience_eligibility(candidate.experience_years,
                                     internship.experience_required),
        seed)

\* identify_skill_gaps
identify_skill_gaps(candidate_skills, internship, seed) ==
    IF internship.required_skills = "" THEN <<>>
    ELSE LET candidate_set == extract_skill_set(candidate_skills)
             missing_required == extract_skill_set(internship.required_skills) \ candidate_set
             missing_preferred == extract_skill_set(internship.preferred_skills) \ candidate_set
         IN  Take(Take(SetList(missing_required, seed), 3)
                      \o Take(SetList(missing_preferred, seed), 2), 5)

(***************************************************************************)
(* The store: the tables candidates, internships and recommendations       *)
(***************************************************************************)
\* the profiles the candidates sign up with, and the one an update sets
ProfileA == [skills |-> "Product Management, SQL, Python", location |-> "Bangalore",
             education |-> "Bachelor's", experience_years |-> 0]
ProfileB == [skills |-> "Python, ML, Leadership", location |-> "Mumbai",
             education |-> "Master's", experience_years |-> 2]
ProfileC == [skills |-> "", location |-> "Pune",
             education |-> "Diploma", experience_years |-> 1]
NewProfiles == {ProfileC}

\* ids of rows in candidates, and ids a request may carry
CandidateIds == {1, 2}
RequestIds == CandidateIds \cup {3}

InitialCandidates ==
    [c \in CandidateIds |-> [id |-> c] @@ (IF c = 1 THEN ProfileA ELSE ProfileB)]

Posting(id, title, company, location, required, preferred, active, education, years) ==
    [id |-> id, title |-> title, company |-> company, location |-> location,
     description |-> "Work with the product team", required_skills |-> required,
     preferred_skills |-> preferred, duration |-> "3 months", stipend |-> "15000",
     is_active |-> active, min_education |-> education, experience_required |-> years]

PostingA == Posting(1, "Product Intern", "Acme", "Bangalore",
                    "Product Management, SQL", "", TRUE, "Bachelor's", 0)
PostingB == Posting(2, "Associate PM Intern", "Globex", "Bangalore",
                    "Product Management, SQL", "", TRUE, "Bachelor's", 0)
PostingC == Posting(3, "Data Product Intern", "Initech", "Bangalore",
                    "SQL, Python", "", TRUE, "Bachelor's", 0)
PostingD == Posting(4, "Growth Intern", "Hooli", "Pune",
                    "Excel", "", FALSE, "", 0)

\* the contents of the internships table, in the order the store returns rows
PostingTables == {<<PostingC, PostingD, PostingB, PostingA>>}

\* the freshness window of get_cached_recommendations, in hours
CacheHours == 24

\* bounds of the model: the clock, its step, the calls made, top_n, the
\* events around the calls (clock steps, profile updates, restarts), the writes the
\* store refuses
MaxTime == 25
TickHours == 25
MaxCalls == 2
MaxTopN == 2
MaxEvents == 1
MaxFaults == 1

\* the requests in flight at one time
Procs == {1, 2}

\* the values of top_n a request may carry: a count of results to return
TopNs == 1..MaxTopN

VARIABLES
    hashseed,          \* the hash seed of the server process
    now,               \* the clock of the store, in hours
    candidates,        \* table candidates: id -> row
    internships,       \* table internships: the rows in store order
    recommendations,   \* table recommendations: the rows in rowid order
    calls,             \* the number of calls of get_recommendations made
    faults,            \* the number of writes the store has refused
    restarts,          \* the number of times the server process was restarted
    pc,                \* where each request is in get_recommendations
    args,              \* its arguments candidate_id, top_n, use_cache
    l_candidate,       \* its local candidate
    l_internships,     \* its local internships
    l_recommendations, \* its local recommendations
    returned,          \* which return statement it left by
    result,            \* the list it returned
    scorer_args,       \* the arguments of a scorer called on its own
    scorer_result      \* what that call returned

vars == <<hashseed, now, candidates, internships, recommendations, calls, faults, restarts,
          pc, args, l_candidate, l_internships, l_recommendations, returned, result,
          scorer_args, scorer_result>>

\* a scorer called on its own, outside get_recommendations
scorer == <<scorer_args, scorer_result>>

\* no such call was made, and nothing was returned yet
NoCall == [fn |-> "none"]
NoResult == [fn |-> "none"]

store == <<hashseed, now, candidates, internships, recommendations>>

NoCandidate == [id |-> 0]

\* the state after construction, before any request or scorer call
Constructed ==
    /\ hashseed \in HashSeeds
    /\ now = 0
    /\ candidates = InitialCandidates
    /\ internships \in PostingTables
    /\ recommendations = <<>>
    /\ calls = 0
    /\ faults = 0
    /\ restarts = 0
    /\ pc = [p \in Procs |-> "idle"]
    /\ args = [p \in Procs |-> [candidate_id |-> 0, top_n |-> 0, use_cache |-> FALSE]]
    /\ l_candidate = [p \in Procs |-> NoCandidate]
    /\ l_internships = [p \in Procs |-> <<>>]
    /\ l_recommendations = [p \in Procs |-> <<>>]
    /\ returned = [p \in Procs |-> "none"]
    /\ result = [p \in Procs |-> <<>>]

Init ==
    /\ Constructed
    /\ scorer_args = NoCall
    /\ scorer_result = NoResult

\* a get_candidate that falls back to the first row for an unknown id
GetCandidateOrFirst(candidate_id) ==
    IF candidate_id \in DOMAIN candidates THEN candidates[candidate_id] ELSE candidates[1]

\* Database.get_candidate(candidate_id=...): the row, or NoCandidate for None
get_candidate(candidate_id) ==
    IF candidate_id \in DOMAIN candidates THEN candidates[candidate_id] ELSE NoCandidate

\* Database.get_all_internships(active_only=True)
get_all_internships == SelectSeq(internships, LAMBDA i : i.is_active)

\* the row save_recommendation inserts
NewRow(candidate_id, internship_id, score, explanation) ==
    [id |-> Len(recommendations) + 1, candidate_id |-> candidate_id,
     internship_id |-> internship_id, score |-> score, explanation |-> explanation,
     created_at |-> now]

\* a save_recommendation that skips the INSERT when the pair has a row
SaveIfAbsent(ok, candidate_id, internship_id, score, explanation) ==
    IF ok /\ ~\E k \in DOMAIN recommendations :
                  /\ recommendations[k].candidate_id = candidate_id
                  /\ recommendations[k].internship_id = internship_id
    THEN Append(recommendations, NewRow(candidate_id, internship_id, score, explanation))
    ELSE recommendations

\* a save_recommendation that overwrites the rows the pair already has
SaveReplacing(ok, candidate_id, internship_id, score, explanation) ==
    IF ok
    THEN Append([k \in DOMAIN recommendations |->
                    IF /\ recommendations[k].candidate_id = candidate_id
                       /\ recommendations[k].internship_id = internship_id
                    THEN [recommendations[k] EXCEPT !.score = score,
                                                    !.explanation = explanation,
                                                    !.created_at = now]
                    ELSE recommendations[k]],
                NewRow(candidate_id, internship_id, score, explanation))
    ELSE recommendations

\* Database.save_recommendation: the table after the call; ok is whether the
\* INSERT went through (True returned) or raised (False returned)
save_recommendation(ok, candidate_id, internship_id, score, explanation) ==
    IF ok
    THEN Append(recommendations, NewRow(candidate_id, internship_id, score, explanation))
    ELSE recommendations

\* a freshness test that forgets the age of the row
IsFreshAlways(r, hours) == r.created_at >= 0

\* the WHERE clause of get_cached_recommendations
IsFresh(r, hours) == r.created_at >= now - hours

\* the JOIN of get_cached_recommendations: a row with its posting's columns
Joined(r, i) ==
    [id |-> r.id, candidate_id |-> r.candidate_id, internship_id |-> r.internship_id,
     score |-> r.score, explanation |-> r.explanation, created_at |-> r.created_at,
     title |-> i.title, company |-> i.company, location |-> i.location,
     description |-> i.description, required_skills |-> i.required_skills,
     preferred_skills |-> i.preferred_skills, duration |-> i.duration,
     stipend |-> i.stipend]

\* a get_cached_recommendations without the candidate_id in its WHERE clause
GetCachedOfAnyone(candidate_id, hours) ==
    {Joined(recommendations[k], internships[j]) :
        <<k, j>> \in {<<k, j>> \in (DOMAIN recommendations) \X (DOMAIN internships) :
                        /\ recommendations[k].internship_id = internships[j].id
                        /\ IsFresh(recommendations[k], hours)}}

\* Database.get_cached_recommendations: the rows the SELECT yields, as a set
get_cached_recommendations(candidate_id, hours) ==
    {Joined(recommendations[k], internships[j]) :
        <<k, j>> \in {<<k, j>> \in (DOMAIN recommendations) \X (DOMAIN internships) :
                        /\ recommendations[k].internship_id = internships[j].id
                        /\ recommendations[k].candidate_id = candidate_id
                        /\ IsFresh(recommendations[k], hours)}}

\* ORDER BY r.score DESC: the first n rows of every order the store may
\* return; rows of equal score come in an order SQL leaves open
RECURSIVE TopByScore(_, _)
TopByScore(rows, n) ==
    IF n = 0 \/ rows = {} THEN {<<>>}
    ELSE UNION {{<<r>> \o rest : rest \in TopByScore(rows \ {r}, n - 1)} :
                   r \in {q \in rows : \A o \in rows : o.score <= q.score}}

\* a sort that is ascending and stable, then reversed: equal scores swap
SortThenReverse(seq) ==
    LET pos(k) == 1 + Cardinality({j \in DOMAIN seq : seq[j].score > seq[k].score})
                    + Cardinality({j \in DOMAIN seq : j > k /\ seq[j].score = seq[k].score})
    IN  [i \in DOMAIN seq |-> seq[CHOOSE k \in DOMAIN seq : pos(k) = i]]

\* recommendations.sort(key=score, reverse=True): a stable sort
SortByScore(seq) ==
    LET pos(k) == 1 + Cardinality({j \in DOMAIN seq : seq[j].score > seq[k].score})
                    + Cardinality({j \in 1..(k - 1) : seq[j].score = seq[k].score})
    IN  [i \in DOMAIN seq |-> seq[CHOOSE k \in DOMAIN seq : pos(k) = i]]

\* the dict built for one internship (lines 481-505)
RecommendationOf(internship, scored, skill_gaps) ==
    [internship_id |-> internship.id, title |-> internship.title,
     company |-> internship.company, location |-> internship.location,
     description |-> internship.description,
     required_skills |-> internship.required_skills,
     preferred_skills |-> internship.preferred_skills,
     duration |-> internship.duration, stipend |-> internship.stipend,
     score |-> scored.score, explanation |-> scored.explanation,
     matched_skills |-> scored.matched_skills,
     skill_gaps |-> skill_gaps]

Recommendation(candidate, internship, seed) ==
    RecommendationOf(internship, calculate_hybrid_score(candidate, internship, seed),
                     identify_skill_gaps(candidate.skills, internship, seed))

\* every candidate row and posting row of the model, and the dict of each
\* pair under each hash seed, computed once
CandidateRows ==
    {InitialCandidates[c] : c \in CandidateIds}
        \cup {[id |-> c] @@ prof : c \in CandidateIds, prof \in NewProfiles}
PostingRows == {PostingA, PostingB, PostingC}
RecommendationTable ==
    {<<key, Recommendation(key[1], key[2], key[3])>> :
        key \in CandidateRows \X PostingRows \X HashSeeds}
Lookup(candidate, internship, seed) ==
    (CHOOSE entry \in RecommendationTable :
        entry[1] = <<candidate, internship, seed>>)[2]

(***************************************************************************)
(* get_recommendations, one action per statement that reads or writes the  *)
(* store                                                                   *)
(***************************************************************************)
\* the call: candidate_id, top_n, use_cache
Call(p, candidate_id, top_n, use_cache) ==
    /\ pc[p] = "idle"
    /\ calls < MaxCalls
    /\ calls' = calls + 1
    /\ args' = [args EXCEPT ![p] = [candidate_id |-> candidate_id, top_n |-> top_n,
                                    use_cache |-> use_cache]]
    /\ pc' = [pc EXCEPT ![p] = IF use_cache THEN "cache" ELSE "candidate"]
    /\ UNCHANGED <<l_candidate, l_internships, l_recommendations>>
    /\ returned' = [returned EXCEPT ![p] = "none"]
    /\ result' = [result EXCEPT ![p] = <<>>]
    /\ UNCHANGED <<store, faults, restarts, scorer>>

\* a threshold that wants more rows than asked for
CacheHitStrict(cached, top_n) == Cardinality(cached) > top_n

\* enough cached rows to return them (line 465)
CacheHit(cached, top_n) == Cardinality(cached) >= top_n

\* lines 463-467: the cache lookup
CheckCache(p) ==
    /\ pc[p] = "cache"
    /\ LET cached == get_cached_recommendations(args[p].candidate_id, CacheHours)
       IN  IF CacheHit(cached, args[p].top_n)
           THEN /\ \E top \in TopByScore(cached,
                                           SliceLen(Cardinality(cached), args[p].top_n)) :
                       result' = [result EXCEPT ![p] = top]
                /\ returned' = [returned EXCEPT ![p] = "cache"]
                /\ pc' = [pc EXCEPT ![p] = "idle"]
           ELSE /\ pc' = [pc EXCEPT ![p] = "candidate"]
                /\ UNCHANGED <<returned, result>>
    /\ UNCHANGED <<store, calls, faults, restarts, args, l_candidate, l_internships,
                   l_recommendations, scorer>>

\* lines 470-476: load the candidate, then the active postings; the postings
\* never change, so the two reads are one step
GetCandidate(p) ==
    /\ pc[p] = "candidate"
    /\ IF get_candidate(args[p].candidate_id) = NoCandidate
       THEN /\ returned' = [returned EXCEPT ![p] = "missing"]
            /\ result' = [result EXCEPT ![p] = <<>>]
            /\ pc' = [pc EXCEPT ![p] = "idle"]
            /\ UNCHANGED <<l_candidate, l_internships>>
       ELSE /\ l_candidate' =
                   [l_candidate EXCEPT ![p] = get_candidate(args[p].candidate_id)]
            /\ l_internships' = [l_internships EXCEPT ![p] = get_all_internships]
            /\ IF get_all_internships = <<>>
               THEN /\ returned' = [returned EXCEPT ![p] = "computed"]
                    /\ pc' = [pc EXCEPT ![p] = "idle"]
               ELSE /\ pc' = [pc EXCEPT ![p] = "score"]
                    /\ UNCHANGED returned
            /\ UNCHANGED result
    /\ UNCHANGED <<store, calls, faults, restarts, args, l_recommendations, scorer>>

\* a return that cuts the list without sorting it
RankedUnsorted(list, top_n) == Take(list, top_n)

\* lines 518-519: sort by score, highest first, and keep the first top_n
Ranked(list, top_n) == Take(SortByScore(list), top_n)

\* a loop that keeps the recommendation only when its row was saved
CollectedIfSaved(list, recommendation, ok) ==
    IF ok THEN Append(list, recommendation) ELSE list

\* line 507: recommendations.append(recommendation), whatever the save returns
Collected(list, recommendation, ok) == Append(list, recommendation)

\* lines 480-522: one turn of the loop, for the next internship; after the
\* last turn the list is sorted, cut and returned, and the locals end
ScoreAndSave(p, ok) ==
    /\ pc[p] = "score"
    /\ ok \/ faults < MaxFaults
    /\ faults' = IF ok THEN faults ELSE faults + 1
    /\ LET internship == l_internships[p][Len(l_recommendations[p]) + 1]
           recommendation == Lookup(l_candidate[p], internship, hashseed)
           list == Collected(l_recommendations[p], recommendation, ok)
           turn == Len(l_recommendations[p]) + 1
       IN  /\ recommendations' =
                  save_recommendation(ok, args[p].candidate_id, internship.id,
                                      recommendation.score, recommendation.explanation)
           /\ IF turn < Len(l_internships[p])
              THEN /\ l_recommendations' = [l_recommendations EXCEPT ![p] = list]
                   /\ UNCHANGED <<pc, l_candidate, l_internships, returned, result>>
              ELSE /\ result' = [result EXCEPT ![p] = Ranked(list, args[p].top_n)]
                   /\ returned' = [returned EXCEPT ![p] = "computed"]
                   /\ pc' = [pc EXCEPT ![p] = "idle"]
                   /\ l_candidate' = [l_candidate EXCEPT ![p] = NoCandidate]
                   /\ l_internships' = [l_internships EXCEPT ![p] = <<>>]
                   /\ l_recommendations' = [l_recommendations EXCEPT ![p] = <<>>]
    /\ UNCHANGED <<hashseed, now, candidates, internships, calls, restarts, args, scorer>>

\* the events so far: the steps of the clock, the candidate rows updated and
\* the restarts of the server
Events ==
    now \div TickHours
        + Cardinality({c \in DOMAIN candidates : candidates[c] # InitialCandidates[c]})
        + restarts

\* time passes
Tick ==
    /\ Events < MaxEvents
    /\ now + TickHours <= MaxTime
    /\ now' = now + TickHours
    /\ UNCHANGED <<hashseed, candidates, internships, recommendations, calls, faults,
                   restarts, pc, args,
                   l_candidate, l_internships, l_recommendations, returned, result, scorer>>

\* Database.update_candidate, from the profile endpoint: the row gets new values
UpdateCandidate(candidate_id, profile) ==
    /\ candidate_id \in DOMAIN candidates
    /\ Events < MaxEvents
    /\ candidates[candidate_id] # [id |-> candidate_id] @@ profile
    /\ candidates' = [candidates EXCEPT ![candidate_id] = [id |-> candidate_id] @@ profile]
    /\ UNCHANGED <<hashseed, now, internships, recommendations, calls, faults,
                   restarts, pc, args,
                   l_candidate, l_internships, l_recommendations, returned, result, scorer>>

\* the server process is restarted between requests (uvicorn runs with
\* reload): the new process hashes strings with another seed
Restart ==
    /\ \A p \in Procs : pc[p] = "idle"
    /\ Events < MaxEvents
    /\ \E seed \in HashSeeds \ {hashseed} : hashseed' = seed
    /\ restarts' = restarts + 1
    /\ UNCHANGED <<now, candidates, internships, recommendations, calls, faults, pc, args,
                   l_candidate, l_internships, l_recommendations, returned, result, scorer>>

Next ==
    \/ \E p \in Procs, c \in RequestIds, n \in TopNs, u \in BOOLEAN : Call(p, c, n, u)
    \/ \E p \in Procs : CheckCache(p)
    \/ \E p \in Procs : GetCandidate(p)
    \/ \E p \in Procs : ScoreAndSave(p, TRUE)
    \/ Tick
    \/ Restart
    \/ \E c \in CandidateIds, prof \in NewProfiles : UpdateCandidate(c, prof)

\* the store accepts every write
Spec == Init /\ [][Next]_vars

\* the store may refuse a write: save_recommendation returns False
NextFault ==
    \/ Next
    \/ \E p \in Procs : ScoreAndSave(p, FALSE)

SpecFault == Init /\ [][NextFault]_vars

(***************************************************************************)
(* The claims about get_recommendations                                    *)
(***************************************************************************)
\* the rows, by rowid, the store holds for candidate c, the ones younger than
\* 24 hours among them, and the rows of one (candidate, posting) pair
RowsOf(c) == {k \in DOMAIN recommendations : recommendations[k].candidate_id = c}
FreshRows(c) == {k \in RowsOf(c) : now - recommendations[k].created_at <= 24}
RowsOfPair(c, i) == {k \in RowsOf(c) : recommendations[k].internship_id = i}

\* the ids of the active postings
ActiveIds ==
    {internships[j].id : j \in {j \in DOMAIN internships : internships[j].is_active}}

NonIncreasing(list) ==
    \A i \in 1..(Len(list) - 1) : list[i].score >= list[i + 1].score

\* the steps of request p: entering the call, reading the cache, loading the
\* candidate, one turn of the loop, leaving the call
CallStep(p) == pc[p] = "idle" /\ pc'[p] # "idle"
LookupStep(p) == pc[p] = "cache" /\ pc'[p] # "cache"
LoadStep(p) == pc[p] = "candidate" /\ pc'[p] # "candidate"
TurnStep(p) ==
    pc[p] = "score" /\ (pc'[p] # "score" \/ l_recommendations'[p] # l_recommendations[p])
ReturnStep(p) == pc[p] # "idle" /\ pc'[p] = "idle"

\* list is the first n of the rows in `rows`, taken in descending score
IsFirstOf(list, rows, n) ==
    /\ Len(list) = n
    /\ \A i \in DOMAIN list :
          /\ list[i].id \in rows
          /\ list[i].internship_id = recommendations[list[i].id].internship_id
          /\ list[i].score = recommendations[list[i].id].score
          /\ list[i].explanation = recommendations[list[i].id].explanation
    /\ \A i, j \in DOMAIN list : i # j => list[i].id # list[j].id
    /\ NonIncreasing(list)
    /\ \A k \in rows \ {list[i].id : i \in DOMAIN list} :
          \A i \in DOMAIN list : recommendations[k].score <= list[i].score

\* C1: a call with use_cache that finds at least top_n rows younger than 24h
\* for its candidate returns the first top_n of them by score, computes
\* nothing and writes nothing: the table is the same before and after the call
C1_CacheHitReturnsCachedRows ==
    [][\A p \in Procs :
          /\ CallStep(p) => recommendations' = recommendations
          /\ (/\ LookupStep(p)
              /\ Cardinality(FreshRows(args[p].candidate_id)) >= args[p].top_n)
                => /\ pc'[p] = "idle"
                   /\ returned'[p] = "cache"
                   /\ IsFirstOf(result'[p], FreshRows(args[p].candidate_id), args[p].top_n)
                   /\ l_recommendations'[p] = <<>>
                   /\ recommendations' = recommendations]_vars

\* a call was served from the cache: two rows returned out of three
C1_Witness ==
    \E p \in Procs :
        /\ returned[p] = "cache"
        /\ args[p].top_n = 2
        /\ Len(result[p]) = 2
        /\ Cardinality(RowsOf(args[p].candidate_id)) = 3

\* the rows requests in their loop have written for candidate c so far
InFlightRows(c) ==
    SumOver(Procs, [p \in Procs |->
                       IF pc[p] = "score" /\ args[p].candidate_id = c
                       THEN Len(l_recommendations[p]) ELSE 0])
InFlightOfPair(c, i) ==
    Cardinality({p \in Procs :
                    /\ pc[p] = "score"
                    /\ args[p].candidate_id = c
                    /\ \E j \in DOMAIN l_recommendations[p] :
                          l_recommendations[p][j].internship_id = i})

\* C2: a call that is not served from the cache and whose candidate exists
\* appends one row per active posting, all of them and not only the top_n,
\* and leaves the earlier rows of the pair in place: the finished calls have
\* left the same number k of rows for each active posting, k*P rows in all
C2_OneRowPerActivePosting ==
    /\ [](\A c \in RequestIds :
             /\ \A k \in RowsOf(c) : recommendations[k].internship_id \in ActiveIds
             /\ \A i \in ActiveIds :
                   Cardinality(RowsOf(c)) - InFlightRows(c)
                       = Cardinality(ActiveIds)
                           * (Cardinality(RowsOfPair(c, i)) - InFlightOfPair(c, i)))
    /\ [][\A p \in Procs :
             /\ (CallStep(p) /\ ~args'[p].use_cache) => pc'[p] = "candidate"
             /\ (/\ LookupStep(p)
                 /\ Cardinality(FreshRows(args[p].candidate_id)) < args[p].top_n)
                   => pc'[p] = "candidate"
             /\ (LoadStep(p) /\ args[p].candidate_id \in DOMAIN candidates)
                   => /\ pc'[p] = "score"
                      /\ Len(l_internships'[p]) = Cardinality(ActiveIds)
                      /\ {l_internships'[p][j].id : j \in DOMAIN l_internships'[p]}
                             = ActiveIds
             /\ TurnStep(p)
                   => /\ Len(recommendations') = Len(recommendations) + 1
                      /\ SubSeq(recommendations', 1, Len(recommendations)) = recommendations
                      /\ recommendations'[Len(recommendations')].candidate_id
                             = args[p].candidate_id
                      /\ recommendations'[Len(recommendations')].internship_id
                             = l_internships[p][Len(l_recommendations[p]) + 1].id
                      /\ (pc'[p] = "idle")
                             <=> (Len(l_recommendations[p]) + 1 = Cardinality(ActiveIds))]_vars

\* two calls have recomputed for one candidate: 2*P rows, two for each pair
C2_Witness ==
    /\ \A p \in Procs : pc[p] = "idle"
    /\ \E c \in CandidateIds :
          /\ Cardinality(RowsOf(c)) = 2 * Cardinality(ActiveIds)
          /\ Cardinality(ActiveIds) > MaxTopN
          /\ \A i \in ActiveIds : Cardinality(RowsOfPair(c, i)) = 2

\* C3: every list a call has returned, from the cache or freshly computed,
\* has at most top_n entries and is in descending score
C3_AtMostTopNBestFirst ==
    \A p \in Procs :
        returned[p] # "none"
            => Len(result[p]) <= args[p].top_n /\ NonIncreasing(result[p])

\* one list came from the cache and one was computed, two entries each, and
\* the computed one has a strictly better first entry; three were scored
C3_Witness ==
    \E p, q \in Procs :
        /\ returned[p] = "cache" /\ returned[q] = "computed"
        /\ Len(result[p]) = 2 /\ Len(result[q]) = 2
        /\ result[q][1].score > result[q][2].score
        /\ Cardinality(ActiveIds) = 3

\* the fields of a RecommendationResult
ResultFields ==
    {"internship_id", "title", "company", "location", "description", "duration",
     "stipend", "score", "explanation", "matched_skills", "skill_gaps"}

\* C4: every result a call has returned, from the cache or freshly computed,
\* carries the posting id, the display fields, the score, the explanation,
\* the matched skills and the skill gaps
C4_EveryResultCarriesAllFields ==
    \A p \in Procs :
        returned[p] # "none"
            => \A i \in DOMAIN result[p] : ResultFields \subseteq DOMAIN result[p][i]

\* C5: a call for an id that no candidate row has returns the empty list,
\* with use_cache or without, never enters the loop and writes no row
C5_MissingCandidateReturnsEmpty ==
    /\ \A p \in Procs :
          args[p].candidate_id \notin DOMAIN candidates
              => /\ pc[p] # "score"
                 /\ result[p] = <<>>
                 /\ returned[p] \in {"none", "missing"}
                 /\ (pc[p] = "idle" /\ args[p].candidate_id # 0) => returned[p] = "missing"
    /\ \A k \in DOMAIN recommendations :
          recommendations[k].candidate_id \in DOMAIN candidates

\* two calls for an unknown id have returned, one with use_cache, one without
C5_Witness ==
    \E p, q \in Procs :
        /\ returned[p] = "missing" /\ returned[q] = "missing"
        /\ args[p].use_cache /\ ~args[q].use_cache
        /\ args[p].candidate_id \notin DOMAIN candidates
        /\ recommendations = <<>>

\* the dicts the loop of request p builds for the postings it has loaded
Computed(p) ==
    [j \in DOMAIN l_internships[p] |->
        Lookup(l_candidate[p], l_internships[p][j], hashseed)]

\* C6: a row older than 24 hours neither counts toward the top_n rows a cache
\* hit needs nor is returned; a call with use_cache that finds no younger row
\* goes on to load the candidate row and the active postings as they are now
\* and returns scores computed from them
C6_StaleRowsAreIgnored ==
    [][\A p \in Procs :
          /\ LookupStep(p)
                => /\ returned'[p] = "cache"
                      => /\ Cardinality(FreshRows(args[p].candidate_id)) >= args[p].top_n
                         /\ \A i \in DOMAIN result'[p] :
                               result'[p][i].id \in FreshRows(args[p].candidate_id)
                   /\ FreshRows(args[p].candidate_id) = {} => pc'[p] = "candidate"
          /\ (LoadStep(p) /\ pc'[p] = "score")
                => /\ l_candidate'[p] = candidates[args[p].candidate_id]
                   /\ l_internships'[p] = SelectSeq(internships, LAMBDA i : i.is_active)
          /\ (TurnStep(p) /\ ReturnStep(p))
                => \A i \in DOMAIN result'[p] :
                      \E j \in DOMAIN l_internships[p] :
                          /\ result'[p][i].internship_id = l_internships[p][j].id
                          /\ result'[p][i].score = Computed(p)[j].score]_vars

\* a call with use_cache has recomputed a day after the first rows were written
C6_Witness ==
    \E p \in Procs :
        /\ returned[p] = "computed"
        /\ args[p].use_cache
        /\ Len(result[p]) = args[p].top_n
        /\ \E k \in RowsOf(args[p].candidate_id) : now - recommendations[k].created_at > 24
        /\ Cardinality(RowsOf(args[p].candidate_id)) = 2 * Cardinality(ActiveIds)

\* the place of the posting with this id in the list a request has loaded
PlaceOf(postings, id) == CHOOSE j \in DOMAIN postings : postings[j].id = id

\* the list a recomputing call returns holds the first top_n postings by
\* descending score, equal scores in the order the store returned the postings
StableRanking ==
    [][\A p \in Procs :
          (TurnStep(p) /\ ReturnStep(p))
              => LET postings == l_internships[p]
                     score == [j \in DOMAIN postings |-> Computed(p)[j].score]
                     Before(a, b) ==
                         score[a] > score[b] \/ (score[a] = score[b] /\ a < b)
                     place == [i \in DOMAIN result'[p] |->
                                  PlaceOf(postings, result'[p][i].internship_id)]
                 IN  /\ Len(result'[p]) = Min(args[p].top_n, Len(postings))
                     /\ \A i \in DOMAIN place : result'[p][i].score = score[place[i]]
                     /\ \A i, j \in DOMAIN place : i < j => Before(place[i], place[j])
                     /\ \A k \in DOMAIN postings :
                           k \notin Range(place)
                               => \A i \in DOMAIN place : Before(place[i], k)]_vars

\* the posting ids of a returned list, in order
PostingIds(list) == [i \in DOMAIN list |-> list[i].internship_id]

\* C7: two recomputing calls over the same candidate row and the same
\* postings return the same sequence of posting ids, equal scores in the
\* order the store returned the postings
C7_SameSnapshotSameRanking ==
    \A p, q \in Procs :
        (/\ returned[p] = "computed" /\ returned[q] = "computed"
         /\ args[p].candidate_id = args[q].candidate_id
         /\ args[p].top_n = args[q].top_n
         /\ candidates[args[p].candidate_id] = InitialCandidates[args[p].candidate_id])
            => PostingIds(result[p]) = PostingIds(result[q])

\* C8: no step of get_recommendations deletes or changes a row: the rows
\* before a step are the first rows after it
C8_CacheIsAppendOnly ==
    [][/\ Len(recommendations') >= Len(recommendations)
       /\ SubSeq(recommendations', 1, Len(recommendations)) = recommendations]_vars

\* two rows of one (candidate, posting) pair, written a day apart
C8_Witness ==
    \E k1, k2 \in DOMAIN recommendations :
        /\ k1 < k2
        /\ recommendations[k1].candidate_id = recommendations[k2].candidate_id
        /\ recommendations[k1].internship_id = recommendations[k2].internship_id
        /\ recommendations[k1].created_at < recommendations[k2].created_at

\* C9: a write the store refuses changes nothing in what the call returns:
\* the loop goes on with the posting's dict in the list, and the call ends
\* with the ranking of the dicts of all the postings it loaded
C9_FailedWriteLeavesResult ==
    [][/\ faults' # faults
          => \E p \in Procs :
                /\ pc[p] = "score"
                /\ recommendations' = recommendations
                /\ IF Len(l_recommendations[p]) + 1 < Len(l_internships[p])
                   THEN /\ pc'[p] = "score"
                        /\ l_recommendations'[p] =
                               Append(l_recommendations[p],
                                      Computed(p)[Len(l_recommendations[p]) + 1])
                   ELSE ReturnStep(p)
       /\ \A p \in Procs :
             (pc[p] = "score" /\ ReturnStep(p))
                 => /\ returned'[p] = "computed"
                    /\ result'[p] = Ranked(Computed(p), args[p].top_n)]_vars

\* a call has returned its two best postings although one of its three
\* writes was refused
C9_Witness ==
    \E p \in Procs :
        /\ returned[p] = "computed"
        /\ faults = 1
        /\ calls = 1
        /\ Len(result[p]) = 2
        /\ Len(recommendations) = Cardinality(ActiveIds) - 1

\* what the rows of candidate c say, in the order they were written: the
\* rowid aside, which the table hands out across all candidates
RowsContent(c) ==
    LET rows == SelectSeq(recommendations, LAMBDA r : r.candidate_id = c)
    IN  [k \in DOMAIN rows |->
            [internship_id |-> rows[k].internship_id, score |-> rows[k].score,
             explanation |-> rows[k].explanation, created_at |-> rows[k].created_at]]

\* a step of request p
StepOf(p) == pc'[p] # pc[p] \/ l_recommendations'[p] # l_recommendations[p]

\* C10: a call for candidate A neither reads nor changes anything of another
\* candidate or request: its steps leave the rows of the other candidates and
\* the other requests alone, it is served from the cache exactly when A's own
\* fresh rows suffice and then returns rows of A, it loads A's row, and the
\* rows it writes are A's, with the scores of the row it loaded
C10_CandidatesAreIndependent ==
    [][\A p \in Procs :
          StepOf(p)
              => /\ \A c \in RequestIds \ {args'[p].candidate_id} :
                       RowsContent(c)' = RowsContent(c)
                 /\ \A q \in Procs \ {p} :
                       /\ pc'[q] = pc[q] /\ args'[q] = args[q]
                       /\ l_candidate'[q] = l_candidate[q]
                       /\ l_recommendations'[q] = l_recommendations[q]
                       /\ returned'[q] = returned[q] /\ result'[q] = result[q]
                 /\ LookupStep(p)
                       => /\ (returned'[p] = "cache")
                                <=> (Cardinality(FreshRows(args[p].candidate_id))
                                        >= args[p].top_n)
                          /\ \A i \in DOMAIN result'[p] :
                                result'[p][i].candidate_id = args[p].candidate_id
                 /\ (LoadStep(p) /\ pc'[p] = "score")
                       => l_candidate'[p] = candidates[args[p].candidate_id]
                 /\ TurnStep(p)
                       => /\ Len(recommendations') = Len(recommendations) + 1
                          /\ LET row == recommendations'[Len(recommendations')]
                                 turn == Len(l_recommendations[p]) + 1
                             IN  /\ row.candidate_id = args[p].candidate_id
                                 /\ row.internship_id = l_internships[p][turn].id
                                 /\ row.score = Computed(p)[turn].score
                                 /\ row.explanation = Computed(p)[turn].explanation]_vars

\* calls for two candidates have both recomputed, their writes interleaved
C10_Witness ==
    \E p, q \in Procs :
        /\ returned[p] = "computed" /\ returned[q] = "computed"
        /\ args[p].candidate_id # args[q].candidate_id
        /\ \E k1, k2, k3 \in DOMAIN recommendations :
              /\ k1 < k2 /\ k2 < k3
              /\ recommendations[k1].candidate_id = args[p].candidate_id
              /\ recommendations[k2].candidate_id = args[q].candidate_id
              /\ recommendations[k3].candidate_id = args[p].candidate_id


(***************************************************************************)
(* The scorers called on their own: one call, its arguments drawn from a   *)
(* small set of texts and numbers, and what it returned                    *)
(***************************************************************************)
orchestrator ==
    <<hashseed, now, candidates, internships, recommendations, calls, faults, restarts,
      pc, args, l_candidate, l_internships, l_recommendations, returned, result>>

\* the locations a call may carry; "" stands for a missing location too
Locations ==
    {"", "Mumbai", "Remote - India", "remote", " Bangalore ", "bangalore", "New Delhi",
     "Noida", "Pune", "Work from Anywhere", "Chennai"}

LocationCalls ==
    {[fn |-> "check_location_match", candidate_location |-> a, internship_location |-> b] :
        a \in Locations, b \in Locations}

\* the call check_location_match(candidate_location, internship_location)
CallLocationMatch ==
    /\ scorer_args.fn = "check_location_match"
    /\ scorer_result = NoResult
    /\ scorer_result' =
           [fn |-> "check_location_match"]
               @@ check_location_match(scorer_args.candidate_location,
                                       scorer_args.internship_location)
    /\ UNCHANGED <<orchestrator, scorer_args>>

InitLocation ==
    /\ Constructed
    /\ scorer_args \in LocationCalls
    /\ scorer_result = NoResult

SpecLocation == InitLocation /\ [][CallLocationMatch]_vars

\* the call has returned
Returned(fn) == scorer_args.fn = fn /\ scorer_result # NoResult

\* the text, lower-cased and stripped, contains "remote" or "anywhere"
IsRemote(location) ==
    \/ Contains(strip(lower(Chars(location))), Chars("remote"))
    \/ Contains(strip(lower(Chars(location))), Chars("anywhere"))

\* C16: with both locations given, a candidate's or a posting's location that
\* contains "remote" or "anywhere" makes the result (eligible, 1.0)
C16_RemoteOnEitherSide ==
    (/\ Returned("check_location_match")
     /\ scorer_args.candidate_location # ""
     /\ scorer_args.internship_location # ""
     /\ IsRemote(scorer_args.candidate_location)
            \/ IsRemote(scorer_args.internship_location))
        => (scorer_result.eligible /\ scorer_result.score = Unit)

\* some city of the group occurs in the text, lower-cased and stripped
InGroup(group, location) ==
    \E city \in group : Contains(strip(lower(Chars(location))), Chars(city))

\* the rungs of the decision order of the claim, each true when no rung
\* above it applies
LocationRung(a, b) ==
    IF a = "" \/ b = "" THEN "blank"
    ELSE IF IsRemote(b) THEN "remote"
    ELSE IF strip(lower(Chars(a))) = strip(lower(Chars(b))) THEN "exact"
    ELSE IF InGroup(ncr_cities, a) /\ InGroup(ncr_cities, b) THEN "ncr"
    ELSE IF \E group \in major_city_groups : InGroup(group, a) /\ InGroup(group, b)
    THEN "state"
    ELSE "none"

\* C17: the location result follows the decision order blank, remote posting,
\* exact match, NCR group, same-state group, none; candidate "Mumbai" against
\* posting "Remote - India" is (eligible, 1.0); the result is ineligible
\* exactly when its score is 0.0
C17_LocationDecisionOrder ==
    Returned("check_location_match") =>
        LET rung == LocationRung(scorer_args.candidate_location,
                                 scorer_args.internship_location)
            expected == CASE rung = "blank" -> <<TRUE, Unit \div 2>>
                          [] rung = "remote" -> <<TRUE, Unit>>
                          [] rung = "exact" -> <<TRUE, Unit>>
                          [] rung = "ncr" -> <<TRUE, (9 * Unit) \div 10>>
                          [] rung = "state" -> <<TRUE, (7 * Unit) \div 10>>
                          [] rung = "none" -> <<FALSE, 0>>
        IN  /\ <<scorer_result.eligible, scorer_result.score>> = expected
            /\ (scorer_args.candidate_location = "Mumbai"
                    /\ scorer_args.internship_location = "Remote - India")
                   => (rung = "remote")
            /\ (~scorer_result.eligible) <=> (scorer_result.score = 0)

\* a remote posting was matched against a candidate elsewhere
C17_Witness ==
    /\ Returned("check_location_match")
    /\ scorer_args.candidate_location = "Mumbai"
    /\ scorer_args.internship_location = "Remote - India"
    /\ scorer_result.eligible
    /\ scorer_result.score = Unit


\* the education texts a call may carry; "" stands for a missing one too
CandidateEducations ==
    {"", "Bachelor's", "Master's", "Diploma/Certificate", "High School", "PhD", "B.Sc",
     "Diploma / MBA", "BTech/Unknown"}
MinEducations ==
    {"", "Bachelor's", "Master's", "High School", "Any Graduate", "PhD", "Diploma"}

EducationCalls ==
    {[fn |-> "check_education_eligibility", candidate_education |-> a, min_education |-> b] :
        a \in CandidateEducations, b \in MinEducations}

\* the call check_education_eligibility(candidate_education, min_education)
CallEducationEligibility ==
    /\ scorer_args.fn = "check_education_eligibility"
    /\ scorer_result = NoResult
    /\ scorer_result' =
           [fn |-> "check_education_eligibility"]
               @@ check_education_eligibility(scorer_args.candidate_education,
                                              scorer_args.min_education)
    /\ UNCHANGED <<orchestrator, scorer_args>>

InitEducation ==
    /\ Constructed
    /\ scorer_args \in EducationCalls
    /\ scorer_result = NoResult

SpecEducation == InitEducation /\ [][CallEducationEligibility]_vars

\* the level of an education text: the greatest level of its slash-separated
\* parts, an unknown or blank part counting 0
MappedLevel(text) ==
    Greatest({0} \cup {EducationLevel(Str(strip(part))) :
                           part \in SlashPieces(strip(lower(Chars(text))))})

\* the result the levels alone give
ByLevels(level, required) ==
    IF level >= required
    THEN <<TRUE, Min(Unit, (7 * Unit) \div 10
                               + Min((level - required) * (Unit \div 10), (3 * Unit) \div 10))>>
    ELSE IF level >= required - 1 THEN <<TRUE, Unit \div 2>>
    ELSE <<FALSE, 0>>

\* C18: with min_education set the education result is a function of the
\* mapped levels only (unknown and blank texts map to 0): level >= required
\* gives (eligible, min(1.0, 0.7 + min(0.1 * (level - required), 0.3))), level
\* >= required - 1 gives (eligible, 0.5), otherwise (not eligible, 0.0), and
\* "Bachelor's" against "Master's" is (eligible, 0.5); with min_education
\* unset it is (eligible, 1.0)
C18_EducationByLevelsOnly ==
    Returned("check_education_eligibility") =>
        /\ <<scorer_result.eligible, scorer_result.score>> =
               IF scorer_args.min_education = "" THEN <<TRUE, Unit>>
               ELSE ByLevels(MappedLevel(scorer_args.candidate_education),
                             MappedLevel(scorer_args.min_education))
        /\ (scorer_args.candidate_education = "Bachelor's"
                /\ scorer_args.min_education = "Master's")
               => (scorer_result.eligible /\ scorer_result.score = Unit \div 2)


\* the years of experience a call may carry
MaxYears == 7
Years == 0..MaxYears

ExperienceCalls ==
    {[fn |-> "check_experience_eligibility", candidate_exp |-> a, required_exp |-> b] :
        a \in Years, b \in Years}

\* the call check_experience_eligibility(candidate_exp, required_exp)
CallExperienceEligibility ==
    /\ scorer_args.fn = "check_experience_eligibility"
    /\ scorer_result = NoResult
    /\ scorer_result' =
           [fn |-> "check_experience_eligibility"]
               @@ check_experience_eligibility(scorer_args.candidate_exp,
                                               scorer_args.required_exp)
    /\ UNCHANGED <<orchestrator, scorer_args>>

InitExperience ==
    /\ Constructed
    /\ scorer_args \in ExperienceCalls
    /\ scorer_result = NoResult

SpecExperience == InitExperience /\ [][CallExperienceEligibility]_vars

\* the table of the claim
ExperienceTable(candidate, required) ==
    IF required = 0 THEN <<TRUE, Unit>>
    ELSE IF candidate >= required
    THEN <<TRUE, Min(Unit, (8 * Unit) \div 10
                               + Min((candidate - required) * (Unit \div 20),
                                     (2 * Unit) \div 10))>>
    ELSE IF candidate >= required - 1 THEN <<TRUE, (6 * Unit) \div 10>>
    ELSE <<FALSE, 0>>

\* C19: for non-negative years, required = 0 gives (eligible, 1.0), candidate
\* >= required gives (eligible, min(1.0, 0.8 + min(0.05 * (candidate -
\* required), 0.2))), candidate >= required - 1 gives (eligible, 0.6),
\* anything else (not eligible, 0.0); and with the requirement fixed, fewer
\* years never score higher
C19_ExperienceTable ==
    Returned("check_experience_eligibility") =>
        /\ <<scorer_result.eligible, scorer_result.score>> =
               ExperienceTable(scorer_args.candidate_exp, scorer_args.required_exp)
        /\ \A fewer \in 0..scorer_args.candidate_exp :
               check_experience_eligibility(fewer, scorer_args.required_exp).score
                   <= scorer_result.score

\* a candidate one year short of the requirement got the lenient 0.6
C19_Witness ==
    /\ Returned("check_experience_eligibility")
    /\ scorer_args.required_exp = 3
    /\ scorer_args.candidate_exp = 2
    /\ scorer_result.eligible
    /\ scorer_result.score = (6 * Unit) \div 10


\* the skill texts a call may carry; "" stands for a missing text too
CandidateSkillTexts ==
    {"", "Python", "Product Management, SQL, Python",
     "Leadership; Communication | Teamwork, Presentation",
     "Python, SQL, Excel, Agile, Roadmap, Leadership", "python | sql"}
RequiredSkillTexts == {"", "SQL, Python", "Product Management, SQL", "x", "Python"}
PreferredSkillTexts == {"", "Excel", "Python, Agile"}

SkillCalls ==
    {[fn |-> "calculate_skill_match_score", candidate_skills |-> c, required_skills |-> r,
      preferred_skills |-> p] :
        c \in CandidateSkillTexts, r \in RequiredSkillTexts, p \in PreferredSkillTexts}

\* the locals of a call of calculate_skill_match_score that got past line
\* 138: base_score as line 198 leaves it
SkillLocals(candidate_skills, required_skills, preferred_skills) ==
    [base_score |->
        CombinedScore(extract_skill_set(candidate_skills),
                      extract_skill_set(required_skills),
                      IF preferred_skills # ""
                      THEN extract_skill_set(preferred_skills) ELSE {})]

\* the call calculate_skill_match_score(candidate_skills, required_skills,
\* preferred_skills): what it returned, and base_score when it was computed
CallSkillMatch ==
    /\ scorer_args.fn = "calculate_skill_match_score"
    /\ scorer_result = NoResult
    /\ scorer_result' =
           IF scorer_args.candidate_skills = "" \/ scorer_args.required_skills = ""
           THEN [fn |-> "calculate_skill_match_score"]
                    @@ calculate_skill_match_score(scorer_args.candidate_skills,
                                                   scorer_args.required_skills,
                                                   scorer_args.preferred_skills, hashseed)
           ELSE [fn |-> "calculate_skill_match_score"]
                    @@ calculate_skill_match_score(scorer_args.candidate_skills,
                                                   scorer_args.required_skills,
                                                   scorer_args.preferred_skills, hashseed)
                    @@ SkillLocals(scorer_args.candidate_skills,
                                   scorer_args.required_skills,
                                   scorer_args.preferred_skills)
    /\ UNCHANGED <<orchestrator, scorer_args>>

InitSkills ==
    /\ Constructed
    /\ scorer_args \in SkillCalls
    /\ scorer_result = NoResult

SpecSkills == InitSkills /\ [][CallSkillMatch]_vars

\* the share of the wanted skills the candidate has, 0 for an empty set
Share(cand, wanted) ==
    IF wanted = {} THEN 0 ELSE (Unit * Cardinality(cand \cap wanted)) \div Cardinality(wanted)

\* a bonus of `each` per skill of the category, up to `cap`
CappedBonus(cand, category, each, cap) ==
    Min(Cardinality(cand \cap skill_categories[category]) * each, cap)

\* the combined score as the claim gives it, on the three skill sets
ClaimedCombined(cand, req, pref) ==
    LET base == IF req = {} THEN 0
                ELSE (7 * Share(cand, req) + 3 * Share(cand, pref)) \div 10
        floor == IF Cardinality(cand) >= 6 THEN Unit \div 4
                 ELSE IF Cardinality(cand) >= 1 THEN (15 * Unit) \div 100
                 ELSE 0
        bonuses == CappedBonus(cand, "technical", (15 * Unit) \div 100, (4 * Unit) \div 10)
                     + CappedBonus(cand, "data_analysis", (12 * Unit) \div 100,
                                   (3 * Unit) \div 10)
                     + CappedBonus(cand, "product_management", (2 * Unit) \div 10,
                                   (5 * Unit) \div 10)
                     + CappedBonus(cand, "soft_skills", Unit \div 10, (3 * Unit) \div 10)
                     + CappedBonus(cand, "soft_skills", Unit \div 10, (3 * Unit) \div 10)
    IN  Min(Max(base, floor) + bonuses, Unit)

\* C20: for every posting, one with empty required skills included, the
\* combined skill score is 0.7 * |req /\ cand| / |req| + 0.3 * |pref /\ cand|
\* / |pref| (0 for an empty required set), raised to the floor of the
\* candidate's skill count, plus the four capped category bonuses and the
\* soft-skills bonus, capped at 1.0; where no base_score is computed the
\* returned score is the combined score
C20_CombinedSkillScore ==
    Returned("calculate_skill_match_score") =>
        LET claimed == ClaimedCombined(extract_skill_set(scorer_args.candidate_skills),
                                       extract_skill_set(scorer_args.required_skills),
                                       extract_skill_set(scorer_args.preferred_skills))
        IN  IF "base_score" \in DOMAIN scorer_result
            THEN scorer_result.base_score = claimed
            ELSE scorer_result.score = claimed


\* the candidates and postings a call of calculate_hybrid_score or of
\* identify_skill_gaps may carry
ProfileD == [skills |-> "Python, Leadership, SQL", location |-> "Chennai",
             education |-> "High School", experience_years |-> 0]
ProfileE == [skills |-> "Leadership, Adaptability, Problem Solving, Python, Java, SQL, HTML, CSS",
             location |-> "Remote", education |-> "PhD", experience_years |-> 5]
ScoredCandidates == {ProfileA, ProfileB, ProfileC, ProfileD, ProfileE}

PostingE == Posting(5, "Community Intern", "Umbrella", "Remote - India",
                    "", "", TRUE, "", 0)
PostingF == Posting(6, "Analytics PM Intern", "Stark", "Chennai",
                    "Python, Leadership", "SQL", TRUE, "Master's", 3)
PostingG == Posting(7, "Research Intern", "Wayne", "Mumbai",
                    "Excel", "", TRUE, "PhD", 1)
PostingH == Posting(8, "Operations Intern", "Hooli", "Pune",
                    "", "SQL, Excel", TRUE, "Diploma", 0)
PostingI == Posting(9, "Platform PM Intern", "Pied Piper", "Hyderabad",
                    "Python, SQL, Excel, Agile, Roadmap", "Leadership, Figma, Jira",
                    TRUE, "Bachelor's", 0)
ScoredPostings ==
    {PostingA, PostingC, PostingE, PostingF, PostingG, PostingH, PostingI}

HybridCalls ==
    {[fn |-> "calculate_hybrid_score", candidate |-> c, internship |-> i] :
        c \in ScoredCandidates, i \in ScoredPostings}
GapCalls ==
    {[fn |-> "identify_skill_gaps", candidate_skills |-> c.skills, internship |-> i] :
        c \in ScoredCandidates, i \in ScoredPostings}

\* what calculate_hybrid_score returns, with its locals skill_score,
\* (loc_match, loc_score), (edu_eligible, edu_score), (exp_eligible, exp_score)
\* and potential_bonus
HybridWithLocals(candidate, internship, skill, loc, edu, exp, seed) ==
    [fn |-> "calculate_hybrid_score", skill_score |-> skill.score, loc |-> loc,
     edu |-> edu, exp |-> exp, potential_bonus |-> calculate_potential_bonus(candidate)]
        @@ HybridOfComponents(candidate, internship, skill, loc, edu, exp, seed)

\* the call calculate_hybrid_score(candidate, internship)
CallHybridScore ==
    /\ scorer_args.fn = "calculate_hybrid_score"
    /\ scorer_result = NoResult
    /\ scorer_result' =
           HybridWithLocals(
               scorer_args.candidate, scorer_args.internship,
               calculate_skill_match_score(scorer_args.candidate.skills,
                                           scorer_args.internship.required_skills,
                                           scorer_args.internship.preferred_skills,
                                           hashseed),
               check_location_match(scorer_args.candidate.location,
                                    scorer_args.internship.location),
               check_education_eligibility(scorer_args.candidate.education,
                                           scorer_args.internship.min_education),
               check_experience_eligibility(scorer_args.candidate.experience_years,
                                            scorer_args.internship.experience_required),
               hashseed)
    /\ UNCHANGED <<orchestrator, scorer_args>>

\* the call identify_skill_gaps(candidate_skills, internship)
CallSkillGaps ==
    /\ scorer_args.fn = "identify_skill_gaps"
    /\ scorer_result = NoResult
    /\ scorer_result' =
           [fn |-> "identify_skill_gaps",
            skill_gaps |-> identify_skill_gaps(scorer_args.candidate_skills,
                                               scorer_args.internship, hashseed)]
    /\ UNCHANGED <<orchestrator, scorer_args>>

InitHybrid ==
    /\ Constructed
    /\ scorer_args \in HybridCalls \cup GapCalls
    /\ scorer_result = NoResult

NextHybrid ==
    \/ CallHybridScore
    \/ CallSkillGaps

SpecHybrid == InitHybrid /\ [][NextHybrid]_vars


\* a score of the scale 0.0 .. 1.0
UnitInterval == 0..Unit

\* C11: every dimension score (skill, location, education, experience,
\* potential) lies in [0, 1] and the hybrid total lies in [0.1, 1.0]
C11_ScoresWithinRange ==
    Returned("calculate_hybrid_score") =>
        /\ scorer_result.skill_score \in UnitInterval
        /\ scorer_result.loc.score \in UnitInterval
        /\ scorer_result.edu.score \in UnitInterval
        /\ scorer_result.exp.score \in UnitInterval
        /\ scorer_result.potential_bonus \in UnitInterval
        /\ scorer_result.score >= ScoreUnit \div 10
        /\ scorer_result.score <= ScoreUnit

\* a total the floor lifted to 0.1, and a potential bonus the cap cut to 1.0
C11_Witness ==
    /\ Returned("calculate_hybrid_score")
    /\ \/ /\ scorer_result.score = ScoreUnit \div 10
          /\ scorer_result.skill_score = 0
          /\ ~scorer_result.loc.eligible
       \/ /\ scorer_result.potential_bonus = Unit
          /\ scorer_args.candidate = ProfileE

\* C12: the candidate with skills "Product Management, SQL, Python" in
\* Bangalore, Bachelor's, no experience, against the posting requiring
\* "Product Management, SQL" in Bangalore, Bachelor's, no experience, gets a
\* hybrid total above 0.85
C12_AlignedPairScoresAbove85 ==
    (/\ Returned("calculate_hybrid_score")
     /\ scorer_args.candidate = ProfileA
     /\ scorer_args.internship = PostingA)
        => scorer_result.score > (85 * ScoreUnit) \div 100

\* a skill field of the call is empty
HasEmptySkillField ==
    \/ /\ scorer_args.fn = "calculate_hybrid_score"
       /\ scorer_args.candidate.skills = ""
    \/ /\ scorer_args.fn = "identify_skill_gaps"
       /\ scorer_args.candidate_skills = ""
    \/ scorer_args.internship.required_skills = ""
    \/ scorer_args.internship.preferred_skills = ""

\* the skill texts of the call
SkillFields ==
    {scorer_args.internship.required_skills, scorer_args.internship.preferred_skills}
        \cup (IF scorer_args.fn = "calculate_hybrid_score"
              THEN {scorer_args.candidate.skills} ELSE {scorer_args.candidate_skills})

\* C14: an empty or null skills, required_skills or preferred_skills is an
\* empty skill set: extract_skill_set returns the empty set for it, hybrid
\* scoring returns a score in [0, 1] with skills that come from the texts,
\* and skill-gap identification returns a list of at most 5 skills, none for
\* empty required skills
C14_EmptySkillFieldsAreEmptySets ==
    (scorer_result # NoResult /\ HasEmptySkillField) =>
        /\ \A text \in SkillFields : text = "" => extract_skill_set(text) = {}
        /\ scorer_args.fn = "calculate_hybrid_score" =>
               /\ scorer_result.score \in 0..ScoreUnit
               /\ scorer_result.skill_score \in UnitInterval
               /\ (scorer_args.candidate.skills = ""
                       \/ scorer_args.internship.required_skills = "")
                      => (scorer_result.skill_score = 0
                              /\ scorer_result.matched_skills = <<>>)
        /\ scorer_args.fn = "identify_skill_gaps" =>
               /\ Len(scorer_result.skill_gaps) <= 5
               /\ scorer_args.internship.required_skills = ""
                      => scorer_result.skill_gaps = <<>>
               /\ \A k \in DOMAIN scorer_result.skill_gaps :
                      scorer_result.skill_gaps[k] # ""

\* a candidate without skills was scored against a posting without required
\* skills
C14_Witness ==
    /\ Returned("calculate_hybrid_score")
    /\ scorer_args.candidate.skills = ""
    /\ scorer_args.internship.required_skills = ""
    /\ scorer_result.score \in 0..ScoreUnit

\* C15: the total is skills * 0.45 + location * 0.20 + education * 0.15 +
\* experience * 0.10 + potential * 0.10, times 0.3 when education and
\* experience are both ineligible, times 0.7 when exactly one is, unchanged
\* when both are eligible, whatever the location's eligibility; the floor of
\* 0.1 comes after the multiplier
C15_WeightedSumThenPenaltyThenFloor ==
    Returned("calculate_hybrid_score") =>
        LET sum == 45 * scorer_result.skill_score + 20 * scorer_result.loc.score
                     + 15 * scorer_result.edu.score + 10 * scorer_result.exp.score
                     + 10 * scorer_result.potential_bonus
            failures == Cardinality({d \in {"edu", "exp"} : ~scorer_result[d].eligible})
            tenths == CASE failures = 2 -> 3
                        [] failures = 1 -> 7
                        [] failures = 0 -> 10
            multiplied == (sum * tenths) \div 10
        IN  scorer_result.score = Max(multiplied, ScoreUnit \div 10)

\* education and experience both ineligible, and a total the multiplier 0.3
\* left above the floor
C15_Witness ==
    /\ Returned("calculate_hybrid_score")
    /\ ~scorer_result.edu.eligible
    /\ ~scorer_result.exp.eligible
    /\ scorer_result.score > ScoreUnit \div 10
    /\ scorer_result.score < (4 * ScoreUnit) \div 10


\* the posting with the given id
PostingOf(id) == internships[PlaceOf(internships, id)]

\* C13: once a candidate's profile was updated, a fetch that uses the cache
\* returns, for every posting in its result, the score of the updated
\* profile against that posting, not a score cached before the update
C13_FetchAfterUpdateUsesNewProfile ==
    [][\A p \in Procs :
          (/\ LookupStep(p)
           /\ returned'[p] = "cache"
           /\ args[p].candidate_id \in DOMAIN candidates
           /\ candidates[args[p].candidate_id] # InitialCandidates[args[p].candidate_id])
              => \A i \in DOMAIN result'[p] :
                     \E seed \in HashSeeds :
                         result'[p][i].score =
                             Lookup(candidates[args[p].candidate_id],
                                    PostingOf(result'[p][i].internship_id), seed).score]_vars


\* the candidate's skill set is the posting's required set, not empty, and
\* the posting prefers nothing
SameSkillsAsRequired ==
    /\ scorer_args.fn = "calculate_skill_match_score"
    /\ scorer_args.preferred_skills = ""
    /\ extract_skill_set(scorer_args.required_skills) # {}
    /\ extract_skill_set(scorer_args.candidate_skills)
           = extract_skill_set(scorer_args.required_skills)

\* C21: for a candidate whose skill set equals a posting's non-empty required
\* set, with no preferred skills, the base component is 0.7 and the combined
\* score after floor and bonuses is at least 0.7
C21_IdenticalSetsBaseIsSeventy ==
    (Returned("calculate_skill_match_score") /\ SameSkillsAsRequired) =>
        /\ BaseScore(extract_skill_set(scorer_args.candidate_skills),
                     extract_skill_set(scorer_args.required_skills), {})
               = (7 * Unit) \div 10
        /\ scorer_result.base_score >= (7 * Unit) \div 10

\* the same two skills, written differently on the two sides, were scored
C21_Witness ==
    /\ Returned("calculate_skill_match_score")
    /\ SameSkillsAsRequired
    /\ scorer_args.candidate_skills # scorer_args.required_skills
    /\ scorer_result.base_score > (7 * Unit) \div 10

(***************************************************************************)
(* The skill normaliser on its own: one call of normalize_skills or of     *)
(* extract_skill_set on a skill text.                                      *)
(***************************************************************************)
\* the skill texts of the calls: every abbreviation of the table, every full
\* form, and texts of several skills with each of the separators
SkillTexts ==
    {skill_synonyms[k][1] : k \in DOMAIN skill_synonyms}
        \cup {skill_synonyms[k][2] : k \in DOMAIN skill_synonyms}
        \cup {"", "Python, ML; react", "Python * SQL", "SQL|Excel\nGit",
              "a, R ,, C#, Go", ", Python,", "Node.js, REST API",
              "Microsoft Azure; AWS", "Nodejs | Golang"}

\* the call normalize_skills(skills_text)
CallNormalizeSkills ==
    /\ scorer_args.fn = "normalize_skills"
    /\ scorer_result = NoResult
    /\ scorer_result' = [fn |-> "normalize_skills",
                         normalized |-> normalize_skills(scorer_args.skills_text)]
    /\ UNCHANGED <<orchestrator, scorer_args>>

\* the call extract_skill_set(skills_text)
CallExtractSkillSet ==
    /\ scorer_args.fn = "extract_skill_set"
    /\ scorer_result = NoResult
    /\ scorer_result' = [fn |-> "extract_skill_set",
                         skills |-> extract_skill_set(scorer_args.skills_text)]
    /\ UNCHANGED <<orchestrator, scorer_args>>

InitNormalizer ==
    /\ Constructed
    /\ scorer_args \in [fn : {"normalize_skills", "extract_skill_set"},
                        skills_text : SkillTexts]
    /\ scorer_result = NoResult

NextNormalizer ==
    \/ CallNormalizeSkills
    \/ CallExtractSkillSet

SpecNormalizer == InitNormalizer /\ [][NextNormalizer]_vars

\* re.split on the characters of delims, as SplitPieces splits on Delimiters
PiecesOn(cs, delims) ==
    LET isDelim(i) == cs[i] \in delims
        runs == {<<a, b>> \in (1..Len(cs)) \X (1..Len(cs)) :
                    /\ a <= b
                    /\ \A k \in a..b : ~isDelim(k)
                    /\ a = 1 \/ isDelim(a - 1)
                    /\ b = Len(cs) \/ isDelim(b + 1)}
    IN  {SubSeq(cs, r[1], r[2]) : r \in runs}

\* the trimmed pieces, longer than one character, of the normalised text
\* split on comma, semicolon, pipe, bullet and newline
SplitOnStatedDelimiters(skills_text) ==
    LET pieces == PiecesOn(NormalizeChars(Chars(skills_text)), {",", ";", "|", "*", "\n"})
    IN  {Str(t) : t \in {u \in {strip(p) : p \in pieces} : Len(u) > 1}}

\* C22: extract_skill_set returns the trimmed pieces of the normalised text
\* split on each of comma, semicolon, pipe, bullet and newline; the set never
\* holds an empty string or a token of one character; and the set of
\* "Python, ML; react" holds "python", "machine learning" and "react".
C22_ExtractSplitsOnEveryDelimiter ==
    Returned("extract_skill_set") =>
        /\ scorer_result.skills = SplitOnStatedDelimiters(scorer_args.skills_text)
        /\ \A s \in scorer_result.skills : Len(s) > 1
        /\ (scorer_args.skills_text = "Python, ML; react") =>
               {"python", "machine learning", "react"} \subseteq scorer_result.skills

\* one pass over the text cs from index i on: where an abbreviation of the
\* table stands between word boundaries, the longest such abbreviation is
\* replaced by its full form and the pass resumes after it, so that no
\* replacement is read again
RECURSIVE SinglePassFrom(_, _)
SinglePassFrom(cs, i) ==
    IF i > Len(cs) THEN <<>>
    ELSE LET hits == {k \in DOMAIN sorted_synonyms :
                         /\ MatchAt(cs, i, Chars(sorted_synonyms[k][1]))
                         /\ Boundary(cs, i)
                         /\ Boundary(cs, i + Len(sorted_synonyms[k][1]))}
         IN  IF hits = {} THEN <<cs[i]>> \o SinglePassFrom(cs, i + 1)
             ELSE Chars(sorted_synonyms[Least(hits)][2])
                      \o SinglePassFrom(cs, i + Len(sorted_synonyms[Least(hits)][1]))

\* the text after one such pass over the lowercased original and the two
\* clean-up substitutions
ExpandedOnce(skills_text) ==
    Str(PlainSubFrom(PlainSubFrom(SinglePassFrom(lower(Chars(skills_text)), 1), 1,
                                  Chars(".javascript.javascript"), Chars(".javascript")),
                     1, Chars(".js.js"), Chars(".js")))

\* C23: normalize_skills applies each abbreviation once over the original
\* text, longest first and on word boundaries: the text an expansion
\* produced is not rewritten by a later abbreviation, so an abbreviation
\* alone normalises to its full form.
C23_EachAbbreviationAppliedOnce ==
    Returned("normalize_skills") =>
        /\ scorer_result.normalized = ExpandedOnce(scorer_args.skills_text)
        /\ \A k \in DOMAIN skill_synonyms :
               (scorer_args.skills_text = skill_synonyms[k][1]) =>
                   scorer_result.normalized = skill_synonyms[k][2]

\* C28: normalize_skills is idempotent, and an abbreviation of the table and
\* its full form normalise to the same text.
C28_NormalizeIdempotent ==
    Returned("normalize_skills") =>
        /\ normalize_skills(scorer_result.normalized) = scorer_result.normalized
        /\ \A k \in DOMAIN skill_synonyms :
               (scorer_args.skills_text = skill_synonyms[k][1]) =>
                   scorer_result.normalized = normalize_skills(skill_synonyms[k][2])

\* the elements of the list l
Elements(l) == {l[k] : k \in DOMAIN l}

\* the list l holds no element twice
NoRepeats(l) == \A j, k \in DOMAIN l : l[j] = l[k] => j = k

\* gaps is n skills of missing_required followed by m skills of
\* missing_preferred
GapsOf(gaps, missing_required, missing_preferred, n, m) ==
    /\ Len(gaps) = n + m
    /\ NoRepeats(SubSeq(gaps, 1, n))
    /\ Elements(SubSeq(gaps, 1, n)) \subseteq missing_required
    /\ NoRepeats(SubSeq(gaps, n + 1, n + m))
    /\ Elements(SubSeq(gaps, n + 1, n + m)) \subseteq missing_preferred

\* C24: the skill gaps are up to 3 skills of required - candidate followed by
\* up to 2 skills of preferred - candidate, at most 5 in all; no gap is a
\* skill of the candidate; and a preferred gap is reported whenever
\* preferred - candidate is not empty.
C24_SkillGapsRequiredThenPreferred ==
    Returned("identify_skill_gaps") =>
        LET candidate_set == extract_skill_set(scorer_args.candidate_skills)
            missing_required ==
                extract_skill_set(scorer_args.internship.required_skills) \ candidate_set
            missing_preferred ==
                extract_skill_set(scorer_args.internship.preferred_skills) \ candidate_set
        IN  /\ GapsOf(scorer_result.skill_gaps, missing_required, missing_preferred,
                      Min(3, Cardinality(missing_required)),
                      Min(2, Cardinality(missing_preferred)))
            /\ Len(scorer_result.skill_gaps) <= 5
            /\ Elements(scorer_result.skill_gaps) \cap candidate_set = {}
            /\ missing_preferred # {} =>
                   Elements(scorer_result.skill_gaps) \cap missing_preferred # {}

\* the skills part of the explanation of the returned call
StatedSkillsPart ==
    IF scorer_result.matched_skills # <<>>
    THEN <<"Skills match: " \o JoinWith(Take(scorer_result.matched_skills, 3), ", ")>>
    ELSE IF extract_skill_set(scorer_args.candidate.skills) # {}
    THEN <<"Your skills: "
             \o JoinWith(Take(SetList(extract_skill_set(scorer_args.candidate.skills),
                                      hashseed), 3), ", ")>>
    ELSE <<"Fresh perspective welcome!">>

\* the location parts an explanation may have: none, or one of the two notes
StatedLocationParts ==
    {<<>>, <<"Remote opportunity">>,
     <<"Location match: " \o scorer_args.candidate.location>>}

StatedEducationPart ==
    IF scorer_result.edu.eligible /\ scorer_result.edu.score > (7 * Unit) \div 10
    THEN <<"Education: " \o scorer_args.candidate.education>>
    ELSE <<>>

YearsNote ==
    <<"Experience: " \o ToString(scorer_args.candidate.experience_years) \o " years">>

StatedEncouragementPart ==
    IF scorer_result.score < (3 * ScoreUnit) \div 10
    THEN <<"Great learning opportunity!">>
    ELSE <<>>

\* the explanations made of the parts in the fixed order, with the given
\* experience part, joined by " | "
ExplanationsWith(experience_part) ==
    {JoinWith(StatedSkillsPart \o location_part \o StatedEducationPart
                  \o experience_part \o StatedEncouragementPart, " | ") :
        location_part \in StatedLocationParts}

\* C25 as stated: the explanation joins with " | ", in the order skills,
\* location, education, experience, encouragement: the education note if
\* and only if education is eligible with a score above 0.7, the years note
\* when the candidate has more than 0 years and "Perfect for entry-level
\* role" when 0 years, and "Great learning opportunity!" exactly when the
\* final total is below 0.3.
C25_YearsNoteWheneverYears ==
    Returned("calculate_hybrid_score") =>
        scorer_result.explanation \in
            ExplanationsWith(IF scorer_args.candidate.experience_years > 0
                             THEN YearsNote
                             ELSE <<"Perfect for entry-level role">>)

\* C25, amended: as above, but the years note appears only when the
\* candidate has more than 0 years and is eligible on experience; a
\* candidate with more than 0 years who is not eligible gets no experience
\* part.
C25_ExplanationPartsInOrder ==
    Returned("calculate_hybrid_score") =>
        scorer_result.explanation \in
            ExplanationsWith(IF scorer_args.candidate.experience_years = 0
                             THEN <<"Perfect for entry-level role">>
                             ELSE IF scorer_result.exp.eligible THEN YearsNote
                             ELSE <<>>)

\* a candidate with years of experience who is not eligible on experience
\* has been scored, with a total below 0.3
C25_Witness ==
    /\ Returned("calculate_hybrid_score")
    /\ scorer_args.candidate.experience_years > 0
    /\ ~scorer_result.exp.eligible
    /\ scorer_result.score < (3 * ScoreUnit) \div 10
    /\ scorer_result.explanation \notin ExplanationsWith(YearsNote)

\* text begins with prefix
StartsWith(text, prefix) == MatchAt(Chars(text), 1, Chars(prefix))

\* C29: the explanation of the hybrid scorer is never empty and begins with
\* a skills part, "Skills match: ...", "Your skills: ..." or "Fresh
\* perspective welcome!"; the default text "Good potential match" is never
\* returned.
C29_ExplanationBeginsWithSkillsPart ==
    Returned("calculate_hybrid_score") =>
        /\ scorer_result.explanation # ""
        /\ scorer_result.explanation # "Good potential match"
        /\ \/ StartsWith(scorer_result.explanation, "Skills match: ")
           \/ StartsWith(scorer_result.explanation, "Your skills: ")
           \/ StartsWith(scorer_result.explanation, "Fresh perspective welcome!")

\* a candidate without skills has been scored against a posting for which
\* no location, education or experience part applies
C29_Witness ==
    /\ Returned("calculate_hybrid_score")
    /\ extract_skill_set(scorer_args.candidate.skills) = {}
    /\ ~scorer_result.loc.eligible
    /\ ~scorer_result.edu.eligible
    /\ ~scorer_result.exp.eligible
    /\ scorer_args.candidate.experience_years > 0
    /\ StartsWith(scorer_result.explanation, "Fresh perspective welcome!")

(***************************************************************************)
(* The server constructed over a database file that an earlier run left:   *)
(* the table recommendations holds the rows one recomputing call for       *)
(* candidate 1 saved, one per active posting, in store order.              *)
(***************************************************************************)
RECURSIVE SavedRows(_, _, _)
SavedRows(candidate, postings, seed) ==
    IF postings = <<>> THEN <<>>
    ELSE LET before == SavedRows(candidate, SubSeq(postings, 1, Len(postings) - 1), seed)
             last == Lookup(candidate, postings[Len(postings)], seed)
         IN  Append(before,
                    [id |-> Len(before) + 1, candidate_id |-> candidate.id,
                     internship_id |-> last.internship_id, score |-> last.score,
                     explanation |-> last.explanation, created_at |-> 0])

InitWarm ==
    /\ hashseed \in HashSeeds
    /\ now = 0
    /\ candidates = InitialCandidates
    /\ internships \in PostingTables
    /\ recommendations =
           SavedRows(InitialCandidates[1],
                     SelectSeq(internships, LAMBDA i : i.is_active), hashseed)
    /\ calls = 0
    /\ faults = 0
    /\ restarts = 0
    /\ pc = [p \in Procs |-> "idle"]
    /\ args = [p \in Procs |-> [candidate_id |-> 0, top_n |-> 0, use_cache |-> FALSE]]
    /\ l_candidate = [p \in Procs |-> NoCandidate]
    /\ l_internships = [p \in Procs |-> <<>>]
    /\ l_recommendations = [p \in Procs |-> <<>>]
    /\ returned = [p \in Procs |-> "none"]
    /\ result = [p \in Procs |-> <<>>]
    /\ scorer_args = NoCall
    /\ scorer_result = NoResult

SpecWarm == InitWarm /\ [][Next]_vars

\* C26: in any list get_recommendations returned, every posting id appears
\* at most once, so the list has at most min(top_n, number of active
\* postings) entries.
C26_ReturnedPostingsDistinct ==
    \A p \in Procs :
        returned[p] # "none" =>
            /\ NoRepeats(PostingIds(result[p]))
            /\ Len(result[p]) <= Min(args[p].top_n, Cardinality(ActiveIds))

\* the dicts of the complete ranking of candidate c: one per active posting
CompleteRanking(c) ==
    {Lookup(candidates[c], internships[j], hashseed) :
        j \in {j \in DOMAIN internships : internships[j].is_active}}

\* C27: when a recomputing call for candidate c, which saves its rows one
\* posting at a time, runs next to a call with use_cache for the same c, the
\* call with use_cache returns the posting ids of the first top_n of the
\* complete ranking over all active postings, never the first top_n of a
\* cache written in part.
C27_CacheCallSeesCompleteRanking ==
    \A p, q \in Procs :
        (/\ p # q
         /\ returned[p] = "cache"
         /\ args[q].candidate_id = args[p].candidate_id
         /\ ~args[q].use_cache
         /\ Events = 0)
        => PostingIds(result[p]) \in
               {PostingIds(top) :
                   top \in TopByScore(CompleteRanking(args[p].candidate_id),
                                      args[p].top_n)}

(***************************************************************************)
(* The authentication manager: update_password, reset_password_confirm     *)
(* and login_user over the table candidates, whose rows carry the columns  *)
(* email and password_hash here.  A behaviour is one call that changes a   *)
(* password, followed by logins.                                           *)
(***************************************************************************)
\* the salts bcrypt.gensalt may draw
Salts == {"salt1", "salt2"}

\* bcrypt.hashpw: the hash holds the salt and the digest of the password
\* under that salt
hash_password_bcrypt(password, salt) == [salt |-> salt, digest |-> <<salt, password>>]

\* bcrypt.checkpw: the password is hashed with the salt of the stored hash
verify_password_bcrypt(password, hashed) ==
    hash_password_bcrypt(password, hashed.salt) = hashed

\* Utils.validate_email: ^[a-zA-Z0-9._%+-]+@[a-zA-Z0-9.-]+\.[a-zA-Z]{2,}$
validate_email(email) ==
    LET cs == Chars(email)
        alnum == Range(UpperCase) \cup Range(LowerCase) \cup Range(Digits)
    IN  \E at \in 2..Len(cs), dot \in 1..Len(cs) :
            /\ cs[at] = "@"
            /\ \A k \in 1..(at - 1) : cs[k] \in alnum \cup {".", "_", "%", "+", "-"}
            /\ dot > at + 1
            /\ cs[dot] = "."
            /\ \A k \in (at + 1)..(dot - 1) : cs[k] \in alnum \cup {".", "-"}
            /\ Len(cs) >= dot + 2
            /\ \A k \in (dot + 1)..Len(cs) : cs[k] \in Range(UpperCase) \cup Range(LowerCase)

\* the passwords the candidates registered with
AuthCandidates ==
    [c \in CandidateIds |->
        InitialCandidates[c]
            @@ (IF c = 1
                THEN [email |-> "asha@example.com", name |-> "Asha",
                      password_hash |-> hash_password_bcrypt("secret1", "salt1")]
                ELSE [email |-> "ravi@example.com", name |-> "Ravi",
                      password_hash |-> hash_password_bcrypt("hunter22", "salt2")])]

\* Database.get_candidate(email=email)
get_candidate_by_email(email) ==
    IF \E c \in DOMAIN candidates : candidates[c].email = email
    THEN candidates[CHOOSE c \in DOMAIN candidates : candidates[c].email = email]
    ELSE NoCandidate

\* Database.update_candidate(candidate_id, update_data): whether it returned
\* True, and the table after the call
update_candidate(candidate_id, update_data) ==
    LET update_fields == DOMAIN update_data \ {"id", "email", "password_hash", "created_at"}
    IN  IF update_fields = {} THEN [success |-> FALSE, candidates |-> candidates]
        ELSE [success |-> TRUE,
              candidates |->
                  [c \in DOMAIN candidates |->
                      IF c # candidate_id THEN candidates[c]
                      ELSE [k \in DOMAIN candidates[c] |->
                               IF k \in update_fields THEN update_data[k]
                               ELSE candidates[c][k]]]]

\* lines 155-165 and 209-219: hash the new password, store it, report
StoreNewPassword(user_id, new_password, salt, done, failed) ==
    LET updated == update_candidate(user_id,
                       [password_hash |-> hash_password_bcrypt(new_password, salt)])
    IN  [success |-> updated.success,
         message |-> IF updated.success THEN done ELSE failed,
         candidates |-> updated.candidates]

\* AuthManager.update_password: (success, message) and the table after
update_password(user_id, old_password, new_password, salt) ==
    IF get_candidate(user_id) = NoCandidate
    THEN [success |-> FALSE, message |-> "User not found", candidates |-> candidates]
    ELSE IF ~verify_password_bcrypt(old_password, get_candidate(user_id).password_hash)
    THEN [success |-> FALSE, message |-> "Invalid current password",
          candidates |-> candidates]
    ELSE IF Len(new_password) < 6
    THEN [success |-> FALSE,
          message |-> "New password must be at least 6 characters long",
          candidates |-> candidates]
    ELSE StoreNewPassword(user_id, new_password, salt, "Password updated successfully",
                          "Failed to update password")

\* the key AuthManager signs with
secret_key == "your-secret-key-change-in-production-2024"

\* a JWT: the key it was signed with, its expiry as hours from now, and its
\* payload
Token(key, exp, payload) == [key |-> key, exp |-> exp, payload |-> payload]

\* AuthManager.reset_password_confirm: (success, message) and the table after
reset_password_confirm(reset_token, new_password, salt) ==
    IF reset_token.key # secret_key
    THEN [success |-> FALSE, message |-> "Invalid reset token", candidates |-> candidates]
    ELSE IF reset_token.exp < 0
    THEN [success |-> FALSE, message |-> "Reset token has expired",
          candidates |-> candidates]
    ELSE IF reset_token.payload.type # "password_reset"
    THEN [success |-> FALSE, message |-> "Invalid reset token", candidates |-> candidates]
    ELSE IF Len(new_password) < 6
    THEN [success |-> FALSE, message |-> "Password must be at least 6 characters long",
          candidates |-> candidates]
    ELSE StoreNewPassword(reset_token.payload.user_id, new_password, salt,
                          "Password reset successful", "Failed to reset password")

\* AuthManager.login_user: (success, message)
login_user(email, password) ==
    IF ~validate_email(email)
    THEN [success |-> FALSE, message |-> "Invalid email format"]
    ELSE IF get_candidate_by_email(email) = NoCandidate
    THEN [success |-> FALSE, message |-> "User not found"]
    ELSE IF ~verify_password_bcrypt(password, get_candidate_by_email(email).password_hash)
    THEN [success |-> FALSE, message |-> "Invalid password"]
    ELSE [success |-> TRUE, message |-> "Login successful"]

\* the calls that change a password: the passwords, the tokens a request
\* may carry (a reset token of reset_password_request, an expired one, a
\* login token of generate_token, a token signed with another key)
Passwords == {"secret1", "hunter22", "newpass9", "short", "wrong123"}
Emails == {"asha@example.com", "ravi@example.com", "nobody@example.com", "not-an-email"}
ResetTokens ==
    {Token(secret_key, 1, [user_id |-> u, type |-> "password_reset"]) : u \in CandidateIds}
        \cup {Token(secret_key, 0 - 1, [user_id |-> 1, type |-> "password_reset"]),
              Token(secret_key, 24, [user_id |-> 1, type |-> "login"]),
              Token("another key", 1, [user_id |-> 1, type |-> "password_reset"])}
PasswordCalls ==
    [fn : {"update_password"}, user_id : RequestIds, old_password : Passwords,
     new_password : Passwords]
        \cup [fn : {"reset_password_confirm"}, reset_token : ResetTokens,
              new_password : Passwords]

\* the call update_password(user_id, old_password, new_password)
CallUpdatePassword ==
    /\ scorer_args.fn = "update_password"
    /\ scorer_result = NoResult
    /\ \E salt \in Salts :
           LET done == update_password(scorer_args.user_id, scorer_args.old_password,
                                       scorer_args.new_password, salt)
           IN  /\ candidates' = done.candidates
               /\ scorer_result' = [fn |-> "update_password", success |-> done.success,
                                    message |-> done.message]
    /\ UNCHANGED <<hashseed, now, internships, recommendations, calls, faults, restarts,
                   pc, args, l_candidate, l_internships, l_recommendations, returned,
                   result, scorer_args>>

\* the call reset_password_confirm(reset_token, new_password)
CallResetPasswordConfirm ==
    /\ scorer_args.fn = "reset_password_confirm"
    /\ scorer_result = NoResult
    /\ \E salt \in Salts :
           LET done == reset_password_confirm(scorer_args.reset_token,
                                              scorer_args.new_password, salt)
           IN  /\ candidates' = done.candidates
               /\ scorer_result' = [fn |-> "reset_password_confirm",
                                    success |-> done.success, message |-> done.message]
    /\ UNCHANGED <<hashseed, now, internships, recommendations, calls, faults, restarts,
                   pc, args, l_candidate, l_internships, l_recommendations, returned,
                   result, scorer_args>>

\* a call login_user(email, password) after the password call has returned:
\* `changed` is whether that call reported success
CallLoginUser(email, password) ==
    /\ scorer_args.fn \in {"update_password", "reset_password_confirm"}
    /\ scorer_result # NoResult
    /\ scorer_result' =
           [fn |-> "login_user", email |-> email, password |-> password,
            success |-> login_user(email, password).success,
            message |-> login_user(email, password).message,
            changed |-> IF scorer_result.fn = "login_user" THEN scorer_result.changed
                        ELSE scorer_result.success]
    /\ UNCHANGED <<orchestrator, scorer_args>>

InitAuth ==
    /\ hashseed \in HashSeeds
    /\ now = 0
    /\ candidates = AuthCandidates
    /\ internships \in PostingTables
    /\ recommendations = <<>>
    /\ calls = 0
    /\ faults = 0
    /\ restarts = 0
    /\ pc = [p \in Procs |-> "idle"]
    /\ args = [p \in Procs |-> [candidate_id |-> 0, top_n |-> 0, use_cache |-> FALSE]]
    /\ l_candidate = [p \in Procs |-> NoCandidate]
    /\ l_internships = [p \in Procs |-> <<>>]
    /\ l_recommendations = [p \in Procs |-> <<>>]
    /\ returned = [p \in Procs |-> "none"]
    /\ result = [p \in Procs |-> <<>>]
    /\ scorer_args \in PasswordCalls
    /\ scorer_result = NoResult

NextAuth ==
    \/ CallUpdatePassword
    \/ CallResetPasswordConfirm
    \/ \E email \in Emails, password \in Passwords : CallLoginUser(email, password)

SpecAuth == InitAuth /\ [][NextAuth]_vars

\* the user whose password the call is to change, and whether the call is
\* one the store must accept: an existing user, the current password (or a
\* valid reset token) and a new password of 6 characters or more
PasswordUser ==
    IF scorer_args.fn = "update_password" THEN scorer_args.user_id
    ELSE scorer_args.reset_token.payload.user_id

ValidPasswordCall ==
    /\ scorer_args.fn \in {"update_password", "reset_password_confirm"}
    /\ PasswordUser \in CandidateIds
    /\ Len(scorer_args.new_password) >= 6
    /\ IF scorer_args.fn = "update_password"
       THEN verify_password_bcrypt(scorer_args.old_password,
                                   AuthCandidates[PasswordUser].password_hash)
       ELSE /\ scorer_args.reset_token.key = secret_key
            /\ scorer_args.reset_token.exp >= 0
            /\ scorer_args.reset_token.payload.type = "password_reset"

\* C30: update_password with an existing user, the current password and a
\* new password of 6 characters or more, and reset_password_confirm with a
\* valid reset token and such a new password, return success and replace
\* the stored hash: a following login with the new password succeeds, and
\* one with the old password fails.
C30_NewPasswordTakesEffect ==
    ValidPasswordCall =>
        /\ scorer_result.fn \in {"update_password", "reset_password_confirm"} =>
               /\ scorer_result.success
               /\ verify_password_bcrypt(scorer_args.new_password,
                                         candidates[PasswordUser].password_hash)
        /\ (/\ scorer_result.fn = "login_user"
            /\ scorer_result.email = AuthCandidates[PasswordUser].email) =>
               /\ scorer_result.changed
               /\ scorer_result.password = scorer_args.new_password =>
                      scorer_result.success
               /\ (/\ scorer_result.password # scorer_args.new_password
                   /\ verify_password_bcrypt(scorer_result.password,
                                             AuthCandidates[PasswordUser].password_hash))
                  => ~scorer_result.success

============================================================================
